---- MODULE Spec2Model ----
(***************************************************************************)
(* Model of the data transformation pipeline of excel_column_remover:      *)
(* date parsing, date column detection, month aggregation, row filtering,  *)
(* column editing, the processExcelData pipeline and the month splitter.   *)
(*                                                                         *)
(* Strings are sequences of one-character strings, so that trimming,       *)
(* pattern matching, key formatting and key splitting are computed.        *)
(* JavaScript indices are 0-based; At(s, i) reads s[i] as JavaScript does. *)
(* Local time is taken to be UTC.                                          *)
(***************************************************************************)
EXTENDS Integers, Sequences, FiniteSets, TLC

(***************************************************************************)
(* Bounds of the model.                                                    *)
(***************************************************************************)
MaxRows == 2

MaxSelected == 2

MaxDetectColumns == 3

(***************************************************************************)
(* Characters and strings.                                                 *)
(***************************************************************************)
Digits == <<"0", "1", "2", "3", "4", "5", "6", "7", "8", "9">>

IsDigit(c) == \E i \in 1..10 : Digits[i] = c

DigitVal(c) == (CHOOSE i \in 1..10 : Digits[i] = c) - 1

\* IsSep accepting the slash only
IsSep_SlashOnly(c) == c = "/"

\* [\/\-\.]
IsSep(c) == c \in {"/", "-", "."}

IsSpace(c) == c = " "

RECURSIVE NatToStr(_)
NatToStr(n) == IF n < 10 THEN <<Digits[n + 1]>>
               ELSE NatToStr(n \div 10) \o <<Digits[(n % 10) + 1]>>

RECURSIVE ParseInt(_)
ParseInt(s) == IF s = <<>> THEN 0
               ELSE 10 * ParseInt(SubSeq(s, 1, Len(s) - 1)) + DigitVal(s[Len(s)])

PadStart2(s) == IF Len(s) < 2 THEN <<"0">> \o s ELSE s

RECURSIVE TrimLeft(_)
TrimLeft(s) == IF s # <<>> /\ IsSpace(s[1]) THEN TrimLeft(Tail(s)) ELSE s

RECURSIVE TrimRight(_)
TrimRight(s) == IF s # <<>> /\ IsSpace(s[Len(s)])
                THEN TrimRight(SubSeq(s, 1, Len(s) - 1)) ELSE s

Trim(s) == TrimRight(TrimLeft(s))

LowerOf(c) ==
    CASE c = "A" -> "a" [] c = "B" -> "b" [] c = "C" -> "c" [] c = "D" -> "d"
      [] c = "E" -> "e" [] c = "F" -> "f" [] c = "G" -> "g" [] c = "H" -> "h"
      [] c = "I" -> "i" [] c = "J" -> "j" [] c = "K" -> "k" [] c = "L" -> "l"
      [] c = "M" -> "m" [] c = "N" -> "n" [] c = "O" -> "o" [] c = "P" -> "p"
      [] c = "Q" -> "q" [] c = "R" -> "r" [] c = "S" -> "s" [] c = "T" -> "t"
      [] c = "U" -> "u" [] c = "V" -> "v" [] c = "W" -> "w" [] c = "X" -> "x"
      [] c = "Y" -> "y" [] c = "Z" -> "z" [] OTHER -> c

ToLowerCase(s) == [i \in 1..Len(s) |-> LowerOf(s[i])]

Includes(s, k) ==
    \E i \in 0..(Len(s) - Len(k)) : SubSeq(s, i + 1, i + Len(k)) = k

EndsWith(s, k) ==
    Len(k) <= Len(s) /\ SubSeq(s, Len(s) - Len(k) + 1, Len(s)) = k

\* number of consecutive digits of s starting at (1-based) position p
RECURSIVE DigitRun(_, _)
DigitRun(s, p) == IF p <= Len(s) /\ IsDigit(s[p]) THEN 1 + DigitRun(s, p + 1) ELSE 0

(***************************************************************************)
(* Cell values: strings, numbers, Date objects, null and undefined.        *)
(* A Date object is kept as its local year and month.                      *)
(***************************************************************************)
Str(s) == [t |-> "str", s |-> s, n |-> 0]

Num(n) == [t |-> "num", s |-> <<>>, n |-> n]

DateObj(y, m) == [t |-> "date", s |-> <<>>, n |-> y * 12 + (m - 1)]

Undefined == [t |-> "undefined", s |-> <<>>, n |-> 0]

Null == [t |-> "null", s |-> <<>>, n |-> 0]

EmptyStr == Str(<<>>)

\* JavaScript truthiness of a cell value
Truthy(v) == CASE v.t = "str" -> v.s # <<>>
               [] v.t = "num" -> v.n # 0
               [] v.t = "date" -> TRUE
               [] OTHER -> FALSE

MonthAbbrev == <<"Jan", "Feb", "Mar", "Apr", "May", "Jun",
                 "Jul", "Aug", "Sep", "Oct", "Nov", "Dec">>

\* String(value)
ToStr(v) == CASE v.t = "str" -> v.s
              [] v.t = "num" -> IF v.n < 0 THEN <<"-">> \o NatToStr(0 - v.n) ELSE NatToStr(v.n)
              [] v.t = "date" -> <<MonthAbbrev[(v.n % 12) + 1], " ">> \o NatToStr(v.n \div 12)
              [] v.t = "null" -> <<"n", "u", "l", "l">>
              [] OTHER -> <<"u", "n", "d", "e", "f", "i", "n", "e", "d">>

\* s[i] with a 0-based index; outside the array it is undefined
At(s, i) == IF i >= 0 /\ i < Len(s) THEN s[i + 1] ELSE Undefined

(***************************************************************************)
(* getMonthAndYearFromDate (services/dateUtilities.js).                    *)
(* The result is null (NoDate) or a pair of strings month, year.           *)
(***************************************************************************)
NoDate == [month |-> <<>>, year |-> <<>>]

\* MonthYear without padStart(2, '0')
MonthYear_NoPad(m, y) == [month |-> NatToStr(m), year |-> NatToStr(y)]

\* {month: month.toString().padStart(2, '0'), year: year.toString()}
MonthYear(m, y) == [month |-> PadStart2(NatToStr(m)), year |-> NatToStr(y)]

\* year and month of the day `serial` days after 1899-12-30
SerialToDate(serial) ==
    LET z == serial + 693899
        era == z \div 146097
        doe == z - era * 146097
        yoe == (doe - (doe \div 1460) + (doe \div 36524) - (doe \div 146096)) \div 365
        doy == doe - (365 * yoe + (yoe \div 4) - (yoe \div 100))
        mp == (5 * doy + 2) \div 153
        m == IF mp < 10 THEN mp + 3 ELSE mp - 9
        y == yoe + era * 400 + (IF m <= 2 THEN 1 ELSE 0)
    IN  [y |-> y, m |-> m]

\* /^(\d{1,2})[\/\-\.](\d{1,2})[\/\-\.](\d{4})(\s+\d{1,2}:\d{2})?/
MatchDayMonthYear(str) ==
    LET d1 == DigitRun(str, 1)
        p2 == d1 + 2
        d2 == DigitRun(str, p2)
        p3 == p2 + d2 + 1
        d3 == DigitRun(str, p3)
        ok == /\ d1 \in {1, 2}
              /\ Len(str) >= d1 + 1 /\ IsSep(str[d1 + 1])
              /\ d2 \in {1, 2}
              /\ Len(str) >= p2 + d2 /\ IsSep(str[p2 + d2])
              /\ d3 >= 4
    IN  IF ok THEN [ok |-> TRUE,
                    first |-> ParseInt(SubSeq(str, 1, d1)),
                    second |-> ParseInt(SubSeq(str, p2, p2 + d2 - 1)),
                    third |-> ParseInt(SubSeq(str, p3, p3 + 3))]
        ELSE [ok |-> FALSE, first |-> 0, second |-> 0, third |-> 0]

\* /^(\d{4})[\/\-\.](\d{1,2})[\/\-\.](\d{1,2})(\s+\d{1,2}:\d{2})?/
MatchISO(str) ==
    LET d1 == DigitRun(str, 1)
        d2 == DigitRun(str, 6)
        p3 == 6 + d2 + 1
        d3 == DigitRun(str, p3)
        ok == /\ d1 = 4
              /\ Len(str) >= 5 /\ IsSep(str[5])
              /\ d2 \in {1, 2}
              /\ Len(str) >= 6 + d2 /\ IsSep(str[6 + d2])
              /\ d3 >= 1
    IN  IF ok THEN [ok |-> TRUE,
                    first |-> ParseInt(SubSeq(str, 1, 4)),
                    second |-> ParseInt(SubSeq(str, 6, 6 + d2 - 1)),
                    third |-> ParseInt(SubSeq(str, p3, p3 + (IF d3 >= 2 THEN 1 ELSE 0)))]
        ELSE [ok |-> FALSE, first |-> 0, second |-> 0, third |-> 0]

\* str.replace(/\s+/g, ' ')
RECURSIVE CollapseSpaces(_)
CollapseSpaces(s) ==
    IF s = <<>> THEN <<>>
    ELSE IF IsSpace(s[1]) /\ Len(s) >= 2 /\ IsSpace(s[2]) THEN CollapseSpaces(Tail(s))
    ELSE <<s[1]>> \o CollapseSpaces(Tail(s))

\* new Date(string): the date-only forms of the language standard (YYYY,
\* YYYY-MM, YYYY-MM-DD) are accepted by every engine; a string of one or two
\* digits is a month of 2001 for an engine with the legacy parser and an
\* invalid date for the others; every other string of the model is invalid.
DateConstructor(s, legacy) ==
    LET invalid == [valid |-> FALSE, y |-> 0, m |-> 0]
        n == DigitRun(s, 1)
        two(p) == DigitRun(s, p) = 2
        mm == ParseInt(SubSeq(s, 6, 7))
        dd == ParseInt(SubSeq(s, 9, 10))
    IN  IF n = 4 /\ Len(s) = 4
          THEN [valid |-> TRUE, y |-> ParseInt(s), m |-> 1]
        ELSE IF n = 4 /\ Len(s) = 7 /\ s[5] = "-" /\ two(6)
          THEN IF mm \in 1..12 THEN [valid |-> TRUE, y |-> ParseInt(SubSeq(s, 1, 4)), m |-> mm]
               ELSE invalid
        ELSE IF n = 4 /\ Len(s) = 10 /\ s[5] = "-" /\ two(6) /\ s[8] = "-" /\ two(9)
          THEN IF mm \in 1..12 /\ dd \in 1..31
               THEN [valid |-> TRUE, y |-> ParseInt(SubSeq(s, 1, 4)), m |-> mm]
               ELSE invalid
        ELSE IF legacy /\ n \in {1, 2} /\ Len(s) = n /\ ParseInt(s) \in 1..12
          THEN [valid |-> TRUE, y |-> 2001, m |-> ParseInt(s)]
        ELSE invalid

getMonthAndYearFromDate(dateValue, assumeFormat, legacy) ==
    LET InRange(month, year) == month >= 1 /\ month <= 12 /\ year >= 1900 /\ year <= 2100
        \* the strategies in order, on the serial date, the two regex matches
        \* and the result of new Date(cleanStr)
        Strategies(serial, m3, m4, parsedDate) ==
            IF ~Truthy(dateValue) THEN NoDate
            ELSE IF dateValue.t = "date"
              THEN IF InRange((dateValue.n % 12) + 1, dateValue.n \div 12)
                   THEN MonthYear((dateValue.n % 12) + 1, dateValue.n \div 12)
                   ELSE NoDate
            ELSE IF dateValue.t = "num" /\ dateValue.n > 25000 /\ dateValue.n < 50000
                    /\ InRange(serial.m, serial.y)
              THEN MonthYear(serial.m, serial.y)
            ELSE IF assumeFormat = "DD/MM/YYYY" /\ m3.ok /\ InRange(m3.second, m3.third)
              THEN MonthYear(m3.second, m3.third)
            ELSE IF assumeFormat = "MM/DD/YYYY" /\ m3.ok /\ InRange(m3.first, m3.third)
              THEN MonthYear(m3.first, m3.third)
            ELSE IF m3.ok /\ m3.third >= 1900 /\ m3.third <= 2100
                    /\ m3.first > 12 /\ m3.second >= 1 /\ m3.second <= 12
              THEN MonthYear(m3.second, m3.third)
            ELSE IF m3.ok /\ m3.third >= 1900 /\ m3.third <= 2100
                    /\ m3.second > 12 /\ m3.first >= 1 /\ m3.first <= 12
              THEN MonthYear(m3.first, m3.third)
            ELSE IF m3.ok /\ m3.third >= 1900 /\ m3.third <= 2100
                    /\ m3.first >= 1 /\ m3.first <= 31 /\ m3.second >= 1 /\ m3.second <= 12
              THEN MonthYear(m3.second, m3.third)
            ELSE IF m4.ok /\ m4.first >= 1900 /\ m4.first <= 2100
                    /\ m4.second >= 1 /\ m4.second <= 12
              THEN MonthYear(m4.second, m4.first)
            ELSE IF parsedDate.valid /\ parsedDate.y > 1900 /\ parsedDate.y < 2100
              THEN MonthYear(parsedDate.m, parsedDate.y)
            ELSE NoDate
        \* str = String(dateValue).trim()
        OfString(str) ==
            Strategies(SerialToDate(dateValue.n), MatchDayMonthYear(str), MatchISO(str),
                       DateConstructor(Trim(CollapseSpaces(str)), legacy))
    IN  OfString(Trim(ToStr(dateValue)))

\* getMonthFromDate of the enhanced module: the month of the pair, or null
getMonthFromDate(dateValue, legacy) ==
    getMonthAndYearFromDate(dateValue, "DD/MM/YYYY", legacy).month

(***************************************************************************)
(* Month buckets. monthCounts is null or a list of buckets                 *)
(* {month (display name), code, yearCode, monthYearKey, count}.            *)
(***************************************************************************)
NullList == [isNull |-> TRUE, list |-> <<>>]

List(l) == [isNull |-> FALSE, list |-> l]

monthNames == <<"January", "February", "March", "April", "May", "June", "July",
                "August", "September", "October", "November", "December">>

\* MonthYearKey of the single-year code: the month alone
MonthYearKey_MonthOnly(dateResult) == <<"-">> \o dateResult.month

\* `${dateResult.year}-${dateResult.month}`
MonthYearKey(dateResult) == dateResult.year \o <<"-">> \o dateResult.month

\* monthYearKey.split('-')
RECURSIVE SplitDash(_)
SplitDash(s) ==
    IF \A i \in 1..Len(s) : s[i] # "-" THEN <<s>>
    ELSE LET p == CHOOSE i \in 1..Len(s) : s[i] = "-" /\ \A j \in 1..(i - 1) : s[j] # "-"
         IN  <<SubSeq(s, 1, p - 1)>> \o SplitDash(SubSeq(s, p + 1, Len(s)))

\* `${monthName} ${year}`, monthName looked up in the month-name table
DisplayName(month, year) == <<monthNames[ParseInt(month)], " ">> \o year

\* a.localeCompare(b) on strings of digits
RECURSIVE LocaleCompare(_, _)
LocaleCompare(a, b) ==
    IF a = <<>> /\ b = <<>> THEN 0
    ELSE IF a = <<>> THEN -1
    ELSE IF b = <<>> THEN 1
    ELSE IF DigitVal(a[1]) < DigitVal(b[1]) THEN -1
    ELSE IF DigitVal(a[1]) > DigitVal(b[1]) THEN 1
    ELSE LocaleCompare(Tail(a), Tail(b))

\* the comparator of the bucket sort: by year, then by month
CompareYearMonth(ay, am, by, bm) ==
    IF LocaleCompare(ay, by) # 0 THEN LocaleCompare(ay, by) ELSE LocaleCompare(am, bm)

\* monthYearCounts.set(key, (monthYearCounts.get(key) || 0) + 1): a Map keeps
\* its keys in insertion order
MapIncrement(map, key) ==
    IF \E k \in 1..Len(map) : map[k].key = key
    THEN [k \in 1..Len(map) |-> IF map[k].key = key
                                  THEN [key |-> key, count |-> map[k].count + 1]
                                  ELSE map[k]]
    ELSE Append(map, [key |-> key, count |-> 1])

\* the rows the first counting loop visits are rows 1 .. min(length, 21) - 1
DebugRowLimit == 21

\* CountRowKey with the counting pass parsing month-first
CountRowKey_MonthFirst(row, dateColumnIndex, legacy) ==
    LET KeyOf(dateResult) ==
            IF dateResult # NoDate /\ dateResult.month # <<>> /\ dateResult.year # <<>>
            THEN MonthYearKey(dateResult) ELSE <<>>
    IN  KeyOf(getMonthAndYearFromDate(At(row, dateColumnIndex), "MM/DD/YYYY", legacy))

\* the key under which the counting pass counts a row, <<>> when it counts none
CountRowKey(row, dateColumnIndex, legacy) ==
    LET KeyOf(dateResult) ==
            IF dateResult # NoDate /\ dateResult.month # <<>> /\ dateResult.year # <<>>
            THEN MonthYearKey(dateResult) ELSE <<>>
    IN  KeyOf(getMonthAndYearFromDate(At(row, dateColumnIndex), "DD/MM/YYYY", legacy))

\* one counting loop over the rows from (0-based) index `from` up to `to` - 1
RECURSIVE CountLoop(_, _, _, _, _, _)
CountLoop(jsonData_, dateColumnIndex, from, to, map, legacy) ==
    IF from >= to THEN map
    ELSE LET Counted(key) == IF key # <<>> THEN MapIncrement(map, key) ELSE map
         IN  CountLoop(jsonData_, dateColumnIndex, from + 1, to,
                       Counted(CountRowKey(jsonData_[from + 1], dateColumnIndex, legacy)), legacy)

Min(a, b) == IF a < b THEN a ELSE b

BucketOf(entry) ==
    LET parts == SplitDash(entry.key)
    IN  [month |-> DisplayName(parts[2], parts[1]),
         code |-> parts[2],
         yearCode |-> parts[1],
         monthYearKey |-> entry.key,
         count |-> entry.count]

\* insert bucket b into the sorted list l after every bucket that does not
\* compare greater (a stable sort)
RECURSIVE InsertBucket(_, _)
InsertBucket(l, b) ==
    IF l = <<>> THEN <<b>>
    ELSE IF CompareYearMonth(l[1].yearCode, l[1].code, b.yearCode, b.code) <= 0
         THEN <<l[1]>> \o InsertBucket(Tail(l), b)
         ELSE <<b>> \o l

RECURSIVE SortBuckets(_)
SortBuckets(l) ==
    IF l = <<>> THEN <<>>
    ELSE InsertBucket(SortBuckets(SubSeq(l, 1, Len(l) - 1)), l[Len(l)])

countEntriesByMonthWithColumn(jsonData_, dateColumnIndex, legacy) ==
    IF Len(jsonData_) < 2 \/ dateColumnIndex = -1 THEN NullList
    ELSE LET \* return results.length > 0 ? results : null
             ResultsOrNull(results) == IF Len(results) > 0 THEN List(results) ELSE NullList
             \* the entries of the map as buckets, sorted
             Results(all) == SortBuckets([k \in 1..Len(all) |-> BucketOf(all[k])])
         IN  ResultsOrNull(Results(
                 CountLoop(jsonData_, dateColumnIndex, DebugRowLimit, Len(jsonData_),
                           CountLoop(jsonData_, dateColumnIndex, 1,
                                     Min(Len(jsonData_), DebugRowLimit), <<>>, legacy),
                           legacy)))

(***************************************************************************)
(* filterRowsByMonths (services/dateUtilities.js). The result is the       *)
(* filtered grid, or a TypeError (threw) when monthCounts is null.         *)
(***************************************************************************)
\* monthCounts.find(m => m.month === monthDisplay): index of the first match, 0 if none
FindByMonth(list, monthDisplay) ==
    IF \E k \in 1..Len(list) : list[k].month = monthDisplay
    THEN CHOOSE k \in 1..Len(list) :
            list[k].month = monthDisplay /\ \A j \in 1..(k - 1) : list[j].month # monthDisplay
    ELSE 0

FindByKey(list, key) ==
    IF \E k \in 1..Len(list) : list[k].monthYearKey = key
    THEN CHOOSE k \in 1..Len(list) :
            list[k].monthYearKey = key /\ \A j \in 1..(k - 1) : list[j].monthYearKey # key
    ELSE 0

\* selectedMonths.map(...).filter(key => key !== null)
RECURSIVE MonthYearKeysToRemove(_, _)
MonthYearKeysToRemove(selectedMonths_, list) ==
    IF selectedMonths_ = <<>> THEN <<>>
    ELSE LET k == FindByMonth(list, selectedMonths_[1])
             rest == MonthYearKeysToRemove(Tail(selectedMonths_), list)
         IN  IF k # 0 THEN <<list[k].monthYearKey>> \o rest ELSE rest

InSeq(x, s) == \E k \in 1..Len(s) : s[k] = x

\* FilterRowKey with the filtering pass parsing month-first
FilterRowKey_MonthFirst(row, dateColumnIndex, legacy) ==
    LET KeyOf(trimmedDateValue, dateResult) ==
            IF trimmedDateValue = <<>> THEN <<>>
            ELSE IF dateResult = NoDate \/ dateResult.month = <<>> \/ dateResult.year = <<>>
              THEN <<>>
            ELSE MonthYearKey(dateResult)
        OfValue(dateValue) ==
            KeyOf(IF Truthy(dateValue) THEN Trim(ToStr(dateValue)) ELSE <<>>,
                  getMonthAndYearFromDate(dateValue, "MM/DD/YYYY", legacy))
    IN  OfValue(At(row, dateColumnIndex))

\* the key the filtering pass attributes a row to: <<>> when the date cell is
\* blank or does not parse
FilterRowKey(row, dateColumnIndex, legacy) ==
    LET KeyOf(trimmedDateValue, dateResult) ==
            IF trimmedDateValue = <<>> THEN <<>>
            ELSE IF dateResult = NoDate \/ dateResult.month = <<>> \/ dateResult.year = <<>>
              THEN <<>>
            ELSE MonthYearKey(dateResult)
        OfValue(dateValue) ==
            KeyOf(IF Truthy(dateValue) THEN Trim(ToStr(dateValue)) ELSE <<>>,
                  getMonthAndYearFromDate(dateValue, "DD/MM/YYYY", legacy))
    IN  OfValue(At(row, dateColumnIndex))

\* FilterLoop keeping the rows whose date cell is blank or does not parse
RECURSIVE FilterLoop_KeepUndated(_, _, _, _, _, _, _)
FilterLoop_KeepUndated(data, i, keys, list, dateColumnIndex, acc, legacy) ==
    IF i >= Len(data) THEN acc
    ELSE LET Tally(e) ==
                 IF e # 0 /\ list[e].month \in DOMAIN acc.removedByMonthYear
                 THEN [acc.removedByMonthYear EXCEPT ![list[e].month] = @ + 1]
                 ELSE acc.removedByMonthYear
             Step(row, key) ==
                 IF key # <<>> /\ InSeq(key, keys)
                   THEN [acc EXCEPT !.removedByMonthYear = Tally(FindByKey(list, key))]
                 ELSE [acc EXCEPT !.filteredData = Append(@, row)]
         IN  FilterLoop_KeepUndated(data, i + 1, keys, list, dateColumnIndex,
                 Step(data[i + 1], FilterRowKey(data[i + 1], dateColumnIndex, legacy)), legacy)

\* the loop over the data rows: the rows kept, and the per-name removal tally
\* the function logs (removedByMonthYear)
RECURSIVE FilterLoop(_, _, _, _, _, _, _)
FilterLoop(data, i, keys, list, dateColumnIndex, acc, legacy) ==
    IF i >= Len(data) THEN acc
    ELSE LET \* removedByMonthYear[monthEntry.month]++ when the entry is found
             Tally(e) ==
                 IF e # 0 /\ list[e].month \in DOMAIN acc.removedByMonthYear
                 THEN [acc.removedByMonthYear EXCEPT ![list[e].month] = @ + 1]
                 ELSE acc.removedByMonthYear
             Step(row, key) ==
                 IF key = <<>> THEN acc
                 ELSE IF InSeq(key, keys)
                   THEN [acc EXCEPT !.removedByMonthYear = Tally(FindByKey(list, key))]
                 ELSE [acc EXCEPT !.filteredData = Append(@, row)]
         IN  FilterLoop(data, i + 1, keys, list, dateColumnIndex,
                 Step(data[i + 1], FilterRowKey(data[i + 1], dateColumnIndex, legacy)), legacy)

FilterRun(adjustedJsonData, selectedMonths_, monthCounts_, dateColumnIndex, legacy) ==
    FilterLoop(adjustedJsonData, 1,
               MonthYearKeysToRemove(selectedMonths_, monthCounts_.list),
               monthCounts_.list, dateColumnIndex,
               [filteredData |-> <<adjustedJsonData[1]>>,
                removedByMonthYear |-> [n \in {selectedMonths_[k] : k \in 1..Len(selectedMonths_)} |-> 0]],
               legacy)

Returned(data) == [threw |-> FALSE, data |-> data]

Thrown == [threw |-> TRUE, data |-> <<>>]

\* filterRowsByMonths without the early return for dateColumnIndex === -1
filterRowsByMonths_NoIndexGuard(adjustedJsonData, selectedMonths_, monthCounts_, dateColumnIndex, legacy) ==
    IF Len(adjustedJsonData) = 0 THEN Returned(adjustedJsonData)
    ELSE IF Len(selectedMonths_) = 0 THEN Returned(adjustedJsonData)
    ELSE IF monthCounts_.isNull THEN Thrown
    ELSE Returned(FilterRun(adjustedJsonData, selectedMonths_, monthCounts_,
                            dateColumnIndex, legacy).filteredData)

filterRowsByMonths(adjustedJsonData, selectedMonths_, monthCounts_, dateColumnIndex, legacy) ==
    IF Len(adjustedJsonData) = 0 THEN Returned(adjustedJsonData)
    ELSE IF Len(selectedMonths_) = 0 \/ dateColumnIndex = -1 THEN Returned(adjustedJsonData)
    ELSE IF monthCounts_.isNull THEN Thrown
    ELSE Returned(FilterRun(adjustedJsonData, selectedMonths_, monthCounts_,
                            dateColumnIndex, legacy).filteredData)

\* toggleMonthSelection (services/dataProcessing.js)
toggleMonthSelection(month, currentSelection) ==
    IF InSeq(month, currentSelection)
    THEN SelectSeq(currentSelection, LAMBDA m : m # month)
    ELSE Append(currentSelection, month)

(***************************************************************************)
(* Column editing and processExcelData (services/dataProcessing.js).       *)
(***************************************************************************)
\* FindIndex returning the index of the last match
FindIndex_LastMatch(array, value) ==
    IF \E k \in 1..Len(array) : array[k] = value
    THEN (CHOOSE k \in 1..Len(array) :
            array[k] = value /\ \A j \in (k + 1)..Len(array) : array[j] # value) - 1
    ELSE -1

\* array.findIndex(x => x === value): 0-based index of the first match, or -1
FindIndex(array, value) ==
    IF \E k \in 1..Len(array) : array[k] = value
    THEN (CHOOSE k \in 1..Len(array) :
            array[k] = value /\ \A j \in 1..(k - 1) : array[j] # value) - 1
    ELSE -1

addNewColumns(processedData_, newHeaders) ==
    IF Len(processedData_) = 0 THEN processedData_
    ELSE [r \in 1..Len(processedData_) |->
            IF r = 1 THEN processedData_[1] \o newHeaders
            ELSE processedData_[r] \o [k \in 1..Len(newHeaders) |-> EmptyStr]]

\* reorderColumns writing cell k to position columnOrder[k] instead of reading it from there
reorderColumns_Scatter(data, columnOrder_) ==
    IF Len(data) = 0 \/ Len(columnOrder_) = 0 THEN data
    ELSE [r \in 1..Len(data) |->
            [k \in 1..Len(columnOrder_) |->
                IF \E j \in 1..Len(columnOrder_) : columnOrder_[j] = k - 1 /\ j <= Len(data[r])
                THEN data[r][CHOOSE j \in 1..Len(columnOrder_) : columnOrder_[j] = k - 1]
                ELSE EmptyStr]]

reorderColumns(data, columnOrder_) ==
    IF Len(data) = 0 \/ Len(columnOrder_) = 0 THEN data
    ELSE [r \in 1..Len(data) |->
            [k \in 1..Len(columnOrder_) |->
                IF columnOrder_[k] < Len(data[r]) THEN data[r][columnOrder_[k] + 1]
                ELSE EmptyStr]]

\* reorderColumns of columnReordering.js: newOrder.map(index => row[index] || '')
columnReordering_reorderColumns(data, newOrder) ==
    IF Len(data) = 0 \/ Len(newOrder) = 0 THEN data
    ELSE [r \in 1..Len(data) |->
            [k \in 1..Len(newOrder) |->
                IF Truthy(At(data[r], newOrder[k])) THEN At(data[r], newOrder[k])
                ELSE EmptyStr]]

\* the column order of the component, resolved by header name against the
\* header row after the addition; names that are not found are dropped
RECURSIVE FinalColumnOrder(_, _, _)
FinalColumnOrder(columnOrder_, allCombinedHeaders, headersAfterAddition) ==
    IF columnOrder_ = <<>> THEN <<>>
    ELSE LET headerName == At(allCombinedHeaders, columnOrder_[1])
             actualIndex == FindIndex(headersAfterAddition, headerName)
             rest == FinalColumnOrder(Tail(columnOrder_), allCombinedHeaders, headersAfterAddition)
         IN  IF actualIndex # -1 THEN <<actualIndex>> \o rest ELSE rest

\* HeaderIndicesToRemove resolving the first selected header only
HeaderIndicesToRemove_FirstOnly(selectedHeaders_, currentHeaderRow) ==
    IF selectedHeaders_ = <<>> THEN <<>>
    ELSE LET index == FindIndex(currentHeaderRow, selectedHeaders_[1])
         IN  IF index # -1 THEN <<index>> ELSE <<>>

\* selectedHeaders.map(header => currentHeaderRow.findIndex(...)).filter(index => index !== -1)
RECURSIVE HeaderIndicesToRemove(_, _)
HeaderIndicesToRemove(selectedHeaders_, currentHeaderRow) ==
    IF selectedHeaders_ = <<>> THEN <<>>
    ELSE LET index == FindIndex(currentHeaderRow, selectedHeaders_[1])
             rest == HeaderIndicesToRemove(Tail(selectedHeaders_), currentHeaderRow)
         IN  IF index # -1 THEN <<index>> \o rest ELSE rest

\* row.filter((_, index) => !indices.includes(index))
RECURSIVE DropIndices(_, _, _)
DropIndices(row, indices, index) ==
    IF row = <<>> THEN <<>>
    ELSE IF InSeq(index, indices) THEN DropIndices(Tail(row), indices, index + 1)
    ELSE <<row[1]>> \o DropIndices(Tail(row), indices, index + 1)

\* [headerRow, ...jsonData.slice(headerRowIndex + 1)]
AdjustedData(data, headerRowIndex_) ==
    <<data[headerRowIndex_ + 1]>> \o SubSeq(data, headerRowIndex_ + 2, Len(data))

\* STEP 1: the month filter, skipped without a selection or a date column
FilterStage(adjustedJsonData, selectedMonths_, monthCounts_, selectedDateColumnIndex_, legacy) ==
    IF Len(selectedMonths_) > 0 /\ selectedDateColumnIndex_ # -1
    THEN filterRowsByMonths(adjustedJsonData, selectedMonths_, monthCounts_,
                            selectedDateColumnIndex_, legacy)
    ELSE Returned(adjustedJsonData)

\* ReorderStage putting the columns the order does not list after the listed ones
ReorderStage_KeepUnlisted(dataWithNewColumns, headerRow, columnsToAdd, columnOrder_, originalHeaders, addedColumns) ==
    IF ~columnOrder_.isNull /\ Len(columnOrder_.list) > 0
    THEN LET finalColumnOrder == FinalColumnOrder(columnOrder_.list,
                                     originalHeaders \o addedColumns, headerRow \o columnsToAdd)
             unlisted == SelectSeq([k \in 1..Len(headerRow \o columnsToAdd) |-> k - 1],
                                   LAMBDA index : ~InSeq(index, finalColumnOrder))
         IN  IF Len(finalColumnOrder) > 0
             THEN reorderColumns(dataWithNewColumns, finalColumnOrder \o unlisted)
             ELSE dataWithNewColumns
    ELSE dataWithNewColumns

\* STEP 3: the reordering, applied when the resolved order is not empty
ReorderStage(dataWithNewColumns, headerRow, columnsToAdd, columnOrder_, originalHeaders, addedColumns) ==
    IF ~columnOrder_.isNull /\ Len(columnOrder_.list) > 0
    THEN LET finalColumnOrder == FinalColumnOrder(columnOrder_.list,
                                     originalHeaders \o addedColumns, headerRow \o columnsToAdd)
         IN  IF Len(finalColumnOrder) > 0
             THEN reorderColumns(dataWithNewColumns, finalColumnOrder)
             ELSE dataWithNewColumns
    ELSE dataWithNewColumns

\* RemoveStage dropping the selected columns from the header row only
RemoveStage_HeaderOnly(reorderedData, selectedHeaders_) ==
    IF Len(selectedHeaders_) > 0
    THEN [r \in 1..Len(reorderedData) |->
            IF r = 1
            THEN DropIndices(reorderedData[1],
                             HeaderIndicesToRemove(selectedHeaders_, reorderedData[1]), 0)
            ELSE reorderedData[r]]
    ELSE reorderedData

\* STEP 4: the removal of the selected columns, by name, from the current header row
RemoveStage(reorderedData, selectedHeaders_) ==
    IF Len(selectedHeaders_) > 0
    THEN LET headerIndicesToRemove == HeaderIndicesToRemove(selectedHeaders_, reorderedData[1])
         IN  [r \in 1..Len(reorderedData) |-> DropIndices(reorderedData[r], headerIndicesToRemove, 0)]
    ELSE reorderedData

processExcelData(jsonData_, headerRowIndex_, selectedHeaders_, selectedMonths_, monthCounts_, selectedDateColumnIndex_, newHeaders, columnOrder_, originalHeaders, addedColumns, legacy) ==
    IF jsonData_.isNull THEN Thrown
    ELSE LET headerRow == jsonData_.list[headerRowIndex_ + 1]
             \* STEP 2 to STEP 4 on the filtered grid; an exception of the
             \* filter leaves the function
             LaterStages(filtered) ==
                 IF filtered.threw THEN Thrown
                 ELSE Returned(RemoveStage(
                          ReorderStage(addNewColumns(filtered.data, newHeaders), headerRow,
                                       newHeaders, columnOrder_, originalHeaders, addedColumns),
                          selectedHeaders_))
         IN  LaterStages(FilterStage(AdjustedData(jsonData_.list, headerRowIndex_),
                                     selectedMonths_, monthCounts_, selectedDateColumnIndex_,
                                     legacy))

(***************************************************************************)
(* separateDataByMonths (components/ExcelColumnRemover.js). The result is  *)
(* null or {headerRow, monthsWithData, totalRows, assignedRows,            *)
(* invalidDateRows}.                                                       *)
(***************************************************************************)
NullSeparated == [isNull |-> TRUE, headerRow |-> <<>>, monthsWithData |-> <<>>,
                  totalRows |-> 0, assignedRows |-> 0, invalidDateRows |-> 0]

\* monthYearData.get(key).rows.push(row), creating the entry on first use
MonthYearDataPush(map, dateResult, row) ==
    LET key == MonthYearKey(dateResult)
    IN  IF \E k \in 1..Len(map) : map[k].monthYearKey = key
        THEN [k \in 1..Len(map) |-> IF map[k].monthYearKey = key
                                      THEN [map[k] EXCEPT !.rows = Append(@, row)]
                                      ELSE map[k]]
        ELSE Append(map, [name |-> DisplayName(dateResult.month, dateResult.year),
                          code |-> dateResult.month,
                          year |-> dateResult.year,
                          monthYearKey |-> key,
                          rows |-> <<row>>])

RECURSIVE SeparateLoop(_, _, _, _, _)
SeparateLoop(data, i, processedDateColumnIndex, acc, legacy) ==
    IF i >= Len(data) THEN acc
    ELSE LET Step(row, dateResult) ==
                 IF dateResult # NoDate /\ dateResult.month # <<>> /\ dateResult.year # <<>>
                 THEN [acc EXCEPT !.map = MonthYearDataPush(@, dateResult, row),
                                  !.processedRows = @ + 1, !.assignedRows = @ + 1]
                 ELSE [acc EXCEPT !.processedRows = @ + 1, !.invalidDateRows = @ + 1]
         IN  SeparateLoop(data, i + 1, processedDateColumnIndex,
                 Step(data[i + 1],
                      getMonthAndYearFromDate(At(data[i + 1], processedDateColumnIndex),
                                              "DD/MM/YYYY", legacy)), legacy)

\* InsertMonth keeping the order in which the buckets were created
InsertMonth_Unsorted(l, b) == Append(l, b)

\* .sort by a.year.localeCompare(b.year), then a.code.localeCompare(b.code)
RECURSIVE InsertMonth(_, _)
InsertMonth(l, b) ==
    IF l = <<>> THEN <<b>>
    ELSE IF CompareYearMonth(l[1].year, l[1].code, b.year, b.code) <= 0
         THEN <<l[1]>> \o InsertMonth(Tail(l), b)
         ELSE <<b>> \o l

RECURSIVE SortMonths(_)
SortMonths(l) ==
    IF l = <<>> THEN <<>>
    ELSE InsertMonth(SortMonths(SubSeq(l, 1, Len(l) - 1)), l[Len(l)])

separateDataByMonths(jsonData_, selectedDateColumnIndex_, headerRowIndex_, selectedHeaders_, selectedMonths_, monthCounts_, allNewColumns, columnOrder_, headers_, addedCustomColumns_, legacy) ==
    IF jsonData_.isNull \/ Len(jsonData_.list) < 2 \/ selectedDateColumnIndex_ = -1
    THEN NullSeparated
    ELSE LET originalDateHeader == At(jsonData_.list[headerRowIndex_ + 1], selectedDateColumnIndex_)
             \* the result object built from the tallies of the loop
             Result(headerRow, acc) ==
                 [isNull |-> FALSE,
                  headerRow |-> headerRow,
                  monthsWithData |-> SortMonths(SelectSeq(acc.map, LAMBDA e : Len(e.rows) > 0)),
                  totalRows |-> acc.processedRows,
                  assignedRows |-> acc.assignedRows,
                  invalidDateRows |-> acc.invalidDateRows]
             \* the loop over the processed data rows by the date column found
             Separate(processedData_, processedDateColumnIndex) ==
                 IF processedDateColumnIndex = -1 THEN NullSeparated
                 ELSE Result(processedData_[1],
                             SeparateLoop(processedData_, 1, processedDateColumnIndex,
                                          [map |-> <<>>, processedRows |-> 0, assignedRows |-> 0,
                                           invalidDateRows |-> 0], legacy))
             \* an exception of processExcelData is caught and null returned
             OfProcessed(processed) ==
                 IF processed.threw THEN NullSeparated
                 ELSE IF Len(processed.data) < 2 THEN NullSeparated
                 ELSE Separate(processed.data, FindIndex(processed.data[1], originalDateHeader))
         IN  IF InSeq(originalDateHeader, selectedHeaders_) THEN NullSeparated
             ELSE OfProcessed(processExcelData(jsonData_, headerRowIndex_, selectedHeaders_,
                                  selectedMonths_, monthCounts_, selectedDateColumnIndex_,
                                  allNewColumns, columnOrder_, headers_, addedCustomColumns_,
                                  legacy))

(***************************************************************************)
(* findAllDateColumns (services/dateUtilities.js). Confidences are in      *)
(* thousandths: 0.95 is 950.                                               *)
(***************************************************************************)
strictDateKeywords ==
    <<<<"d", "a", "t", "e">>,
      <<"d", "a", "t", "e", "s">>,
      <<"s", "u", "b", "m", "i", "s", "s", "i", "o", "n">>,
      <<"c", "r", "e", "a", "t", "e", "d">>,
      <<"t", "i", "m", "e">>,
      <<"t", "i", "m", "e", "s", "t", "a", "m", "p">>>>

multiWordPatterns ==
    <<<<"s", "e", "r", "v", "i", "c", "e", " ", "d", "a", "t", "e">>,
      <<"s", "u", "b", "m", "i", "s", "s", "i", "o", "n", " ", "d", "a", "t", "e">>,
      <<"c", "r", "e", "a", "t", "e", "d", " ", "d", "a", "t", "e">>,
      <<"v", "i", "s", "i", "t", " ", "d", "a", "t", "e">>,
      <<"a", "p", "p", "o", "i", "n", "t", "m", "e", "n", "t", " ", "d", "a", "t", "e">>,
      <<"d", "u", "e", " ", "d", "a", "t", "e">>,
      <<"e", "x", "p", "i", "r", "y", " ", "d", "a", "t", "e">>,
      <<"s", "t", "a", "r", "t", " ", "d", "a", "t", "e">>,
      <<"e", "n", "d", " ", "d", "a", "t", "e">>,
      <<"b", "i", "r", "t", "h", " ", "d", "a", "t", "e">>,
      <<"d", "a", "t", "e", " ", "o", "f", " ", "b", "i", "r", "t", "h">>,
      <<"m", "o", "d", "i", "f", "i", "e", "d", " ", "d", "a", "t", "e">>,
      <<"u", "p", "d", "a", "t", "e", "d", " ", "d", "a", "t", "e">>,
      <<"r", "e", "m", "i", "t", "t", "a", "n", "c", "e", " ", "d", "a", "t", "e">>>>

excludedKeywords ==
    <<<<"q", "t", "y">>,
      <<"q", "u", "a", "n", "t", "i", "t", "y">>,
      <<"a", "m", "o", "u", "n", "t">>,
      <<"a", "m", "t">>,
      <<"c", "o", "d", "e">>,
      <<"i", "d">>,
      <<"n", "u", "m", "b", "e", "r">>,
      <<"n", "o">>,
      <<"n", "a", "m", "e">>,
      <<"d", "e", "s", "c", "r", "i", "p", "t", "i", "o", "n">>,
      <<"t", "y", "p", "e">>,
      <<"s", "t", "a", "t", "u", "s">>,
      <<"c", "a", "t", "e", "g", "o", "r", "y">>,
      <<"c", "l", "a", "s", "s">>,
      <<"r", "a", "t", "e">>,
      <<"p", "r", "i", "c", "e">>,
      <<"c", "o", "s", "t">>,
      <<"f", "e", "e">>,
      <<"t", "o", "t", "a", "l">>,
      <<"s", "u", "m">>,
      <<"c", "o", "u", "n", "t">>>>

\* header.toString().toLowerCase().trim()
HeaderStr(header) == Trim(ToLowerCase(ToStr(header)))

\* IsExcluded comparing the whole header with the keyword
IsExcluded_WholeHeader(headerStr) ==
    \E k \in 1..Len(excludedKeywords) : headerStr = excludedKeywords[k]

\* excludedKeywords.some(keyword => headerStr.includes(keyword))
IsExcluded(headerStr) ==
    \E k \in 1..Len(excludedKeywords) : Includes(headerStr, excludedKeywords[k])

\* multiWordPatterns.find(...) finds a pattern
MultiWordMatch(headerStr) ==
    \E k \in 1..Len(multiWordPatterns) :
        Includes(CollapseSpaces(headerStr), ToLowerCase(multiWordPatterns[k]))

\* strictDateKeywords.find(...) finds a keyword
MatchedKeyword(headerStr) ==
    \E k \in 1..Len(strictDateKeywords) :
        IF strictDateKeywords[k] = <<"d", "a", "t", "e">>
        THEN \/ headerStr = <<"d", "a", "t", "e">>
             \/ EndsWith(headerStr, <<" ", "d", "a", "t", "e">>)
             \/ EndsWith(headerStr, <<"d", "a", "t", "e">>)
        ELSE Includes(headerStr, strictDateKeywords[k])

\* the confidence the header alone gives: 0.95, 0.8 or 0
KeywordConfidence(headerStr) ==
    IF MultiWordMatch(headerStr) THEN 950
    ELSE IF MatchedKeyword(headerStr) THEN 800
    ELSE 0

KeywordMatchType(headerStr) ==
    IF MultiWordMatch(headerStr) THEN "Multi-word pattern"
    ELSE IF MatchedKeyword(headerStr) THEN "Keyword"
    ELSE ""

\* the sample rows whose cell i is not null, undefined or ''
SampledValues(sampleRows, i) ==
    SelectSeq([r \in 1..Len(sampleRows) |-> At(sampleRows[r], i)],
              LAMBDA v : v # Null /\ v # Undefined /\ v # EmptyStr)

ValidDates(values, legacy) ==
    Len(SelectSeq(values, LAMBDA v : getMonthFromDate(v, legacy) # <<>>))

Max(a, b) == IF a > b THEN a ELSE b

\* the confidence of column i after blending header and sample evidence
ColumnConfidence(headerStr, sampleRows, i, legacy) ==
    LET Blend(confidence, totalValues, validDates) ==
            IF confidence > 0 /\ Len(sampleRows) > 0
            THEN IF totalValues > 0
                 THEN IF validDates * 10 > 8 * totalValues THEN Max(confidence, 900)
                      ELSE IF validDates * 10 > 5 * totalValues
                        THEN Max(confidence, (confidence * 9) \div 10)
                      ELSE IF validDates * 10 < 3 * totalValues THEN (confidence * 3) \div 10
                      ELSE confidence
                 ELSE confidence
            ELSE IF confidence = 0 /\ Len(sampleRows) > 0
            THEN IF totalValues > 0 /\ validDates * 10 > 9 * totalValues THEN 700 ELSE 0
            ELSE confidence
        OfValues(values) ==
            Blend(KeywordConfidence(headerStr), Len(values), ValidDates(values, legacy))
    IN  OfValues(SampledValues(sampleRows, i))

ColumnMatchType(headerStr, sampleRows, i, legacy) ==
    IF KeywordConfidence(headerStr) = 0 /\ ColumnConfidence(headerStr, sampleRows, i, legacy) = 700
    THEN "Pure data analysis"
    ELSE KeywordMatchType(headerStr)

\* DetectLoop with the threshold confidence >= 0.7
RECURSIVE DetectLoop_AtLeastThreshold(_, _, _, _)
DetectLoop_AtLeastThreshold(headerRow, sampleRows, i, legacy) ==
    IF i >= Len(headerRow) THEN <<>>
    ELSE LET header == headerRow[i + 1]
             headerStr == HeaderStr(header)
             isExcluded == IsExcluded(headerStr)
             confidence == IF isExcluded THEN 0
                           ELSE ColumnConfidence(headerStr, sampleRows, i, legacy)
             rest == DetectLoop_AtLeastThreshold(headerRow, sampleRows, i + 1, legacy)
         IN  IF ~Truthy(header) THEN rest
             ELSE IF confidence >= 700 /\ ~isExcluded
               THEN <<[index |-> i, header |-> header, confidence |-> confidence,
                       matchType |-> ColumnMatchType(headerStr, sampleRows, i, legacy),
                       displayName |-> header]>> \o rest
             ELSE rest

\* the loop over the columns: the candidates in column order
RECURSIVE DetectLoop(_, _, _, _)
DetectLoop(headerRow, sampleRows, i, legacy) ==
    IF i >= Len(headerRow) THEN <<>>
    ELSE LET header == headerRow[i + 1]
             headerStr == HeaderStr(header)
             isExcluded == IsExcluded(headerStr)
             confidence == IF isExcluded THEN 0
                           ELSE ColumnConfidence(headerStr, sampleRows, i, legacy)
             rest == DetectLoop(headerRow, sampleRows, i + 1, legacy)
         IN  IF ~Truthy(header) THEN rest
             ELSE IF confidence > 700 /\ ~isExcluded
               THEN <<[index |-> i, header |-> header, confidence |-> confidence,
                       matchType |-> ColumnMatchType(headerStr, sampleRows, i, legacy),
                       displayName |-> header]>> \o rest
             ELSE rest

\* InsertCandidate placing a candidate before the candidates of equal confidence
RECURSIVE InsertCandidate_TiesFirst(_, _)
InsertCandidate_TiesFirst(l, c) ==
    IF l = <<>> THEN <<c>>
    ELSE IF c.confidence - l[1].confidence < 0
         THEN <<l[1]>> \o InsertCandidate_TiesFirst(Tail(l), c)
         ELSE <<c>> \o l

\* dateColumns.sort((a, b) => b.confidence - a.confidence), a stable sort
RECURSIVE InsertCandidate(_, _)
InsertCandidate(l, c) ==
    IF l = <<>> THEN <<c>>
    ELSE IF c.confidence - l[1].confidence <= 0
         THEN <<l[1]>> \o InsertCandidate(Tail(l), c)
         ELSE <<c>> \o l

RECURSIVE SortCandidates(_)
SortCandidates(l) ==
    IF l = <<>> THEN <<>>
    ELSE InsertCandidate(SortCandidates(SubSeq(l, 1, Len(l) - 1)), l[Len(l)])

\* headerRow is null (a missing row) or a list
findAllDateColumns(headerRow, sampleRows, legacy) ==
    IF headerRow.isNull \/ Len(headerRow.list) = 0 THEN <<>>
    ELSE SortCandidates(DetectLoop(headerRow.list, sampleRows, 0, legacy))

(***************************************************************************)
(* State: the inputs of the operations, named as the session state of the  *)
(* ExcelColumnRemover component, the engine's date parser, and the result  *)
(* of the last call of each operation.                                     *)
(***************************************************************************)
VARIABLES jsonData, headers, headerRowIndex, selectedDateColumnIndex, monthCounts,
          selectedMonths, selectedHeaders, addedCustomColumns, columnOrder,
          legacyDateParser, filteredData, processedDataArray, separatedData, dateColumns

\* the arguments and the result of the last call of getMonthAndYearFromDate
VARIABLES dateValue, assumeFormat, dateResult

\* the rest of the session state of the component, and the file reads in the
\* order in which they were started, each with the state of its promise
VARIABLES error, fileName, allDateColumns, dateColumnIndex, isLoading, fileReads

\* the results of the last calls of the column utilities on the grid, and the
\* workbook and the result of the last call of parseExcelFile
VARIABLES dataWithNewColumns, reorderedData, reorderedByNewOrder, workbook, parsedWorkbook

parserVars == <<dateValue, assumeFormat, dateResult>>

utilityVars == <<dataWithNewColumns, reorderedData, reorderedByNewOrder, workbook,
                 parsedWorkbook>>

sessionVars == <<error, fileName, allDateColumns, dateColumnIndex, isLoading, fileReads>>

vars == <<jsonData, headers, headerRowIndex, selectedDateColumnIndex, monthCounts,
          selectedMonths, selectedHeaders, addedCustomColumns, columnOrder,
          legacyDateParser, filteredData, processedDataArray, separatedData, dateColumns,
          parserVars, sessionVars, utilityVars>>

inputs == <<jsonData, headers, headerRowIndex, selectedDateColumnIndex,
            selectedHeaders, addedCustomColumns, columnOrder, legacyDateParser>>

NotCalled == [called |-> FALSE, threw |-> FALSE, data |-> <<>>]

Called(result) == [called |-> TRUE, threw |-> result.threw, data |-> result.data]

NoSeparation == [called |-> FALSE, result |-> NullSeparated]

NoDetection == [called |-> FALSE, list |-> <<>>]

NotParsed == [called |-> FALSE, result |-> NoDate]

\* no call of the parser yet
ParserIdle ==
    /\ dateValue = Undefined
    /\ assumeFormat = "DD/MM/YYYY"
    /\ dateResult = NotParsed

NoResult == [called |-> FALSE, data |-> <<>>]

\* no call of a column utility or of parseExcelFile yet
UtilityIdle ==
    /\ dataWithNewColumns = NoResult
    /\ reorderedData = NoResult
    /\ reorderedByNewOrder = NoResult
    /\ workbook = <<>>
    /\ parsedWorkbook = NoResult

\* the initial values of the state hooks, and no read started
SessionIdle ==
    /\ error = ""
    /\ fileName = <<>>
    /\ allDateColumns = <<>>
    /\ dateColumnIndex = -1
    /\ isLoading = FALSE
    /\ fileReads = <<>>

\* sequences over S of length lo .. hi
SeqsOf(S, lo, hi) == UNION {[1..n -> S] : n \in lo..hi}

\* sequences over S without repetition, of length lo .. hi
DistinctSeqsOf(S, lo, hi) ==
    {q \in SeqsOf(S, lo, hi) : \A i, j \in 1..Len(q) : i # j => q[i] # q[j]}

\* the grid the operations work on
Adjusted == AdjustedData(jsonData.list, headerRowIndex)

DataRows(data) == SubSeq(data, 2, Len(data))

(***************************************************************************)
(* Inputs of the month operations: a grid with a date column and an amount *)
(* column, rows that may be empty (their cells read as undefined), and a   *)
(* bucket list that is null or, after a call, the count of this grid.      *)
(***************************************************************************)
HDate == Str(<<"D", "a", "t", "e">>)

HPaid == Str(<<"P", "a", "i", "d">>)

DateCells ==
    { Str(<<"1", "5", "/", "0", "1", "/", "2", "0", "2", "3">>),
      Str(<<"1", "5", "/", "0", "1", "/", "2", "0", "2", "4">>),
      Str(<<"0", "3", "/", "0", "2", "/", "2", "0", "2", "4">>),
      Str(<<"n", "/", "a">>),
      Str(<<" ">>) }

MonthRows == {<<d, Num(5)>> : d \in DateCells} \cup {<<>>}

\* a display name that no bucket of the model carries
UnmatchedMonth == <<"June", " ", "2", "0", "3", "0">>

InitMonths ==
    /\ jsonData \in {List(<<(<<HDate, HPaid>>)>> \o rows) : rows \in SeqsOf(MonthRows, 0, MaxRows)}
    /\ headers = jsonData.list[1]
    /\ headerRowIndex = 0
    /\ selectedDateColumnIndex \in {-1, 0, 1, 2}
    /\ monthCounts = NullList
    /\ selectedMonths = <<>>
    /\ selectedHeaders = <<>>
    /\ addedCustomColumns = <<>>
    /\ columnOrder = NullList
    /\ legacyDateParser \in BOOLEAN
    /\ filteredData = NotCalled
    /\ processedDataArray = NotCalled
    /\ separatedData = NoSeparation
    /\ dateColumns = NoDetection
    /\ ParserIdle
    /\ SessionIdle
    /\ UtilityIdle

(***************************************************************************)
(* Operations.                                                             *)
(***************************************************************************)
\* countEntriesByMonthWithColumn on the grid and the selected date column
CallCountEntriesByMonthWithColumn ==
    /\ monthCounts' = countEntriesByMonthWithColumn(Adjusted, selectedDateColumnIndex,
                                                    legacyDateParser)
    /\ filteredData' = NotCalled
    /\ processedDataArray' = NotCalled
    /\ separatedData' = NoSeparation
    /\ UNCHANGED <<inputs, selectedMonths, dateColumns>>
    /\ UNCHANGED <<parserVars, sessionVars, utilityVars>>

\* toggleMonthSelection of a display name of the bucket list, or of a name
\* that matches no bucket
CallToggleMonthSelection ==
    \E month \in {monthCounts.list[k].month : k \in 1..Len(monthCounts.list)} \cup {UnmatchedMonth} :
        /\ InSeq(month, selectedMonths) \/ Len(selectedMonths) < MaxSelected
        /\ selectedMonths' = toggleMonthSelection(month, selectedMonths)
        /\ filteredData' = NotCalled
        /\ processedDataArray' = NotCalled
        /\ separatedData' = NoSeparation
        /\ UNCHANGED <<inputs, monthCounts, dateColumns>>
        /\ UNCHANGED <<parserVars, sessionVars, utilityVars>>

CallFilterRowsByMonths ==
    /\ filteredData' = Called(filterRowsByMonths(Adjusted, selectedMonths, monthCounts,
                                                 selectedDateColumnIndex, legacyDateParser))
    /\ UNCHANGED <<inputs, monthCounts, selectedMonths, processedDataArray, separatedData,
                   dateColumns>>
    /\ UNCHANGED <<parserVars, sessionVars, utilityVars>>

CallProcessExcelData ==
    /\ processedDataArray' = Called(processExcelData(jsonData, headerRowIndex, selectedHeaders,
                                 selectedMonths, monthCounts, selectedDateColumnIndex,
                                 addedCustomColumns, columnOrder, headers,
                                 addedCustomColumns, legacyDateParser))
    /\ UNCHANGED <<inputs, monthCounts, selectedMonths, filteredData, separatedData, dateColumns>>
    /\ UNCHANGED <<parserVars, sessionVars, utilityVars>>

CallSeparateDataByMonths ==
    /\ separatedData' = [called |-> TRUE,
                         result |-> separateDataByMonths(jsonData, selectedDateColumnIndex,
                                        headerRowIndex, selectedHeaders, selectedMonths,
                                        monthCounts, addedCustomColumns, columnOrder, headers,
                                        addedCustomColumns, legacyDateParser)]
    /\ UNCHANGED <<inputs, monthCounts, selectedMonths, filteredData, processedDataArray,
                   dateColumns>>
    /\ UNCHANGED <<parserVars, sessionVars, utilityVars>>

NextMonths ==
    \/ CallCountEntriesByMonthWithColumn
    \/ CallToggleMonthSelection
    \/ CallFilterRowsByMonths
    \/ CallProcessExcelData
    \/ CallSeparateDataByMonths

SpecMonths == InitMonths /\ [][NextMonths]_vars

(***************************************************************************)
(* Properties of month counting, row filtering and month splitting.        *)
(***************************************************************************)
Parse(row, index) ==
    getMonthAndYearFromDate(At(row, index), "DD/MM/YYYY", legacyDateParser)

\* the bucket list is the count of the grid by the selected date column
CountIsCurrent ==
    monthCounts = countEntriesByMonthWithColumn(Adjusted, selectedDateColumnIndex,
                                                legacyDateParser)

\* the data rows whose date cell is blank or does not parse
UndatedRows == SelectSeq(DataRows(Adjusted), LAMBDA row : Parse(row, selectedDateColumnIndex) = NoDate)

\* the data rows that are in the grid but not in the filtered grid
RowsRemoved == Len(Adjusted) - Len(filteredData.data)

\* the filter ran on the grid with its own count and exactly one bucket selected
OneBucketFiltered(k) ==
    /\ filteredData.called /\ ~filteredData.threw
    /\ CountIsCurrent /\ ~monthCounts.isNull
    /\ k \in 1..Len(monthCounts.list)
    /\ selectedMonths = <<monthCounts.list[k].month>>

\* C1 as stated: filtering one bucket m of the grid's own count removes exactly
\* m.count data rows.
C1_RemovedEqualsCount ==
    \A k \in 1..Len(monthCounts.list) :
        OneBucketFiltered(k) => RowsRemoved = monthCounts.list[k].count

\* C1 amended: filtering one bucket m of the grid's own count removes m.count
\* data rows plus every data row whose date cell is blank or does not parse.
C1_RemovedEqualsCountPlusUndated ==
    \A k \in 1..Len(monthCounts.list) :
        OneBucketFiltered(k) => RowsRemoved = monthCounts.list[k].count + Len(UndatedRows)

C1_Witness ==
    /\ OneBucketFiltered(1)
    /\ monthCounts.list[1].count = 1
    /\ Len(UndatedRows) = 1
    /\ RowsRemoved = 2

RemovedByMonthYear ==
    FilterRun(Adjusted, selectedMonths, monthCounts, selectedDateColumnIndex,
              legacyDateParser).removedByMonthYear

\* C2: the counting pass counts a data row under key K exactly when the
\* filtering pass attributes the row to key K, and after a filter run on the
\* grid's own count the rows removed for each selected bucket number its count.
C2_CountAndFilterAgree ==
    /\ \A r \in 1..Len(DataRows(Adjusted)) :
          CountRowKey(DataRows(Adjusted)[r], selectedDateColumnIndex, legacyDateParser)
            = FilterRowKey(DataRows(Adjusted)[r], selectedDateColumnIndex, legacyDateParser)
    /\ (filteredData.called /\ ~filteredData.threw /\ CountIsCurrent /\ ~monthCounts.isNull
          /\ selectedMonths # <<>> /\ selectedDateColumnIndex # -1)
       => \A k \in 1..Len(monthCounts.list) :
             InSeq(monthCounts.list[k].month, selectedMonths)
               => RemovedByMonthYear[monthCounts.list[k].month] = monthCounts.list[k].count

C2_Witness ==
    /\ filteredData.called /\ ~filteredData.threw /\ CountIsCurrent
    /\ Len(monthCounts.list) = 2
    /\ Len(selectedMonths) = 2
    /\ \A k \in 1..2 : /\ InSeq(monthCounts.list[k].month, selectedMonths)
                        /\ RemovedByMonthYear[monthCounts.list[k].month] = 1

\* the keys of the buckets whose display name is selected
SelectedKeys ==
    {monthCounts.list[k].monthYearKey : k \in {j \in 1..Len(monthCounts.list) :
                                                 InSeq(monthCounts.list[j].month, selectedMonths)}}

\* the date cell is not blank, it parses, and its year-month is not selected
KeptByFilter(row) ==
    LET cell == At(row, selectedDateColumnIndex)
        parsed == Parse(row, selectedDateColumnIndex)
    IN  /\ Truthy(cell) /\ Trim(ToStr(cell)) # <<>>
        /\ parsed # NoDate
        /\ (parsed.year \o <<"-">> \o parsed.month) \notin SelectedKeys

\* C3: with a selection and a date column, the filtered grid is the header row
\* followed by the data rows, in order, whose date cell is not blank, parses
\* and is of no selected bucket.
C3_FilterKeepsDatedUnselected ==
    (filteredData.called /\ ~filteredData.threw /\ selectedMonths # <<>>
        /\ selectedDateColumnIndex # -1)
    => filteredData.data = <<Adjusted[1]>> \o SelectSeq(DataRows(Adjusted), KeptByFilter)

C3_Witness ==
    /\ filteredData.called /\ ~filteredData.threw /\ selectedMonths # <<>>
    /\ selectedDateColumnIndex = 0
    /\ SelectedKeys = {}
    /\ Len(UndatedRows) > 0
    /\ Len(filteredData.data) = 2

\* C4: without a selection or without a date column filterRowsByMonths returns
\* its input grid, and processExcelData runs its later stages on the unfiltered grid.
C4_IdentityFilter ==
    /\ (filteredData.called /\ (selectedMonths = <<>> \/ selectedDateColumnIndex = -1))
       => (~filteredData.threw /\ filteredData.data = Adjusted)
    /\ (processedDataArray.called /\ (selectedMonths = <<>> \/ selectedDateColumnIndex = -1))
       => /\ ~processedDataArray.threw
          /\ processedDataArray.data =
               RemoveStage(ReorderStage(addNewColumns(Adjusted, addedCustomColumns),
                                        Adjusted[1], addedCustomColumns, columnOrder,
                                        headers, addedCustomColumns),
                           selectedHeaders)

C4_Witness ==
    /\ filteredData.called /\ processedDataArray.called
    /\ selectedMonths # <<>> /\ selectedDateColumnIndex = -1
    /\ monthCounts.isNull
    /\ Len(DataRows(Adjusted)) > 0

\* the selected names that are the display name of a bucket
MatchedMonths ==
    SelectSeq(selectedMonths, LAMBDA name : FindByMonth(monthCounts.list, name) # 0)

\* C5 as stated: a selected name that matches no bucket changes nothing, so the
\* filter returns what it returns for the matched names alone.
C5_UnmatchedNameIsNoOp ==
    (filteredData.called /\ ~monthCounts.isNull)
    => filteredData.data = filterRowsByMonths(Adjusted, MatchedMonths, monthCounts,
                               selectedDateColumnIndex, legacyDateParser).data

\* the rows of a grid whose date parses to the given year and month
RowsOfMonth(rows, index, year, month) ==
    SelectSeq(rows, LAMBDA row : Parse(row, index) = [month |-> month, year |-> year])

\* the grid the split partitions, and its date column
SplitInput ==
    processExcelData(jsonData, headerRowIndex, selectedHeaders, selectedMonths, monthCounts,
                     selectedDateColumnIndex, addedCustomColumns, columnOrder, headers,
                     addedCustomColumns, legacyDateParser).data

SplitDateColumn == FindIndex(SplitInput[1], At(Adjusted[1], selectedDateColumnIndex))

\* C9: in the count and in the split, buckets have distinct keys and distinct
\* display names, a bucket holds exactly the rows of one year and month, and
\* every row whose date parses is in the bucket of its year and month.
C9_YearMonthBuckets ==
    /\ (CountIsCurrent /\ ~monthCounts.isNull) =>
         LET list == monthCounts.list
         IN  /\ \A i, j \in 1..Len(list) :
                   i # j => /\ list[i].monthYearKey # list[j].monthYearKey
                            /\ list[i].month # list[j].month
                            /\ <<list[i].yearCode, list[i].code>> # <<list[j].yearCode, list[j].code>>
             /\ \A i \in 1..Len(list) :
                   list[i].count = Len(RowsOfMonth(DataRows(Adjusted), selectedDateColumnIndex,
                                                   list[i].yearCode, list[i].code))
             /\ \A r \in 1..Len(DataRows(Adjusted)) :
                   LET parsed == Parse(DataRows(Adjusted)[r], selectedDateColumnIndex)
                   IN  parsed # NoDate =>
                         \E i \in 1..Len(list) :
                             list[i].yearCode = parsed.year /\ list[i].code = parsed.month
    /\ (separatedData.called /\ ~separatedData.result.isNull) =>
         LET list == separatedData.result.monthsWithData
         IN  /\ \A i, j \in 1..Len(list) :
                   i # j => /\ list[i].monthYearKey # list[j].monthYearKey
                            /\ list[i].name # list[j].name
                            /\ <<list[i].year, list[i].code>> # <<list[j].year, list[j].code>>
             /\ \A i \in 1..Len(list) :
                   list[i].rows = RowsOfMonth(DataRows(SplitInput), SplitDateColumn,
                                              list[i].year, list[i].code)
             /\ \A r \in 1..Len(DataRows(SplitInput)) :
                   LET parsed == Parse(DataRows(SplitInput)[r], SplitDateColumn)
                   IN  parsed # NoDate =>
                         \E i \in 1..Len(list) :
                             list[i].year = parsed.year /\ list[i].code = parsed.month

C9_Witness ==
    /\ CountIsCurrent
    /\ separatedData.called
    /\ Len(monthCounts.list) = 2
    /\ Len(separatedData.result.monthsWithData) = 2
    /\ monthCounts.list[1].code = monthCounts.list[2].code
    /\ monthCounts.list[1].yearCode # monthCounts.list[2].yearCode
    /\ separatedData.result.monthsWithData[1].code = separatedData.result.monthsWithData[2].code

(***************************************************************************)
(* Inputs of the column operations: a grid with the unique header names A, *)
(* B, C, optionally below a title row, data rows that are as long as the   *)
(* header row, shorter or longer, an optional added column D, a column     *)
(* order over the positions of the combined header list as the reordering  *)
(* component produces it (no position twice), and names to remove.         *)
(***************************************************************************)
HA == Str(<<"A">>)

HB == Str(<<"B">>)

HC == Str(<<"C">>)

HD == Str(<<"D">>)

\* a name that is no header of the grid
HZ == Str(<<"Z">>)

TitleRow == <<Str(<<"T", "i", "t", "l", "e">>)>>

CellOf(column, r) == Str(<<column, Digits[r + 1]>>)

ColumnRow(r, shape) ==
    CASE shape = "short" -> <<CellOf("a", r)>>
      [] shape = "long" -> <<CellOf("a", r), CellOf("b", r), CellOf("c", r), CellOf("e", r)>>
      [] OTHER -> <<CellOf("a", r), CellOf("b", r), CellOf("c", r)>>

ColumnGrids ==
    {<<(<<HA, HB, HC>>)>> \o [r \in 1..Len(shapes) |-> ColumnRow(r, shapes[r])] :
        shapes \in SeqsOf({"full", "short", "long"}, 0, MaxRows)}

InitColumns ==
    /\ headerRowIndex \in {0, 1}
    /\ jsonData \in {List((IF headerRowIndex = 1 THEN <<TitleRow>> ELSE <<>>) \o g) : g \in ColumnGrids}
    /\ headers = <<HA, HB, HC>>
    /\ selectedDateColumnIndex = -1
    /\ monthCounts = NullList
    /\ selectedMonths = <<>>
    /\ selectedHeaders \in DistinctSeqsOf({HA, HB, HC, HD, HZ}, 0, MaxSelected)
    /\ addedCustomColumns \in {<<>>, <<HD>>}
    /\ columnOrder \in {NullList} \cup
          {List(q) : q \in DistinctSeqsOf(0..(2 + Len(addedCustomColumns)), 1,
                                          3 + Len(addedCustomColumns))}
    /\ legacyDateParser = FALSE
    /\ filteredData = NotCalled
    /\ processedDataArray = NotCalled
    /\ separatedData = NoSeparation
    /\ dateColumns = NoDetection
    /\ ParserIdle
    /\ SessionIdle
    /\ UtilityIdle

NextColumns == CallProcessExcelData

SpecColumns == InitColumns /\ [][NextColumns]_vars

\* the header list the column order refers to
CombinedHeaders == headers \o addedCustomColumns

\* the grid before the removal stage
BeforeRemoval ==
    ReorderStage(addNewColumns(Adjusted, addedCustomColumns), Adjusted[1], addedCustomColumns,
                 columnOrder, headers, addedCustomColumns)

\* C6: with a column order that is a permutation of the positions of the
\* combined header list, the final header row is the combined names in that
\* order without the removed names, and in every data row the cell under an
\* original header name is the cell the row had under that name (an empty
\* string when the row had none).
C6_ReorderThenRemoveByName ==
    (processedDataArray.called /\ ~processedDataArray.threw /\ ~columnOrder.isNull
        /\ Len(columnOrder.list) = Len(CombinedHeaders))
    => LET data == processedDataArray.data
           ordered == [k \in 1..Len(columnOrder.list) |-> CombinedHeaders[columnOrder.list[k] + 1]]
       IN  /\ data[1] = SelectSeq(ordered, LAMBDA name : ~InSeq(name, selectedHeaders))
           /\ Len(data) = Len(Adjusted)
           /\ \A r \in 2..Len(data) :
                 /\ Len(data[r]) = Len(data[1])
                 /\ \A k \in 1..Len(data[1]) : \A j \in 1..Len(headers) :
                       data[1][k] = headers[j]
                         => data[r][k] = IF j <= Len(Adjusted[r]) THEN Adjusted[r][j] ELSE EmptyStr

C6_Witness ==
    /\ processedDataArray.called
    /\ addedCustomColumns = <<HD>>
    /\ columnOrder = List(<<2, 0, 3, 1>>)
    /\ selectedHeaders = <<HB>>
    /\ processedDataArray.data[1] = <<HC, HA, HD>>
    /\ Len(processedDataArray.data) > 1

\* C7: no selected header name is in the final header row, also when the
\* column order refers to it, and selected names that are no current header
\* leave the grid as it was before the removal stage.
C7_RemovalWins ==
    (processedDataArray.called /\ ~processedDataArray.threw)
    => /\ \A k \in 1..Len(selectedHeaders) :
             ~InSeq(selectedHeaders[k], processedDataArray.data[1])
       /\ (\A k \in 1..Len(selectedHeaders) : ~InSeq(selectedHeaders[k], BeforeRemoval[1]))
             => processedDataArray.data = BeforeRemoval

C7_Witness ==
    /\ processedDataArray.called
    /\ selectedHeaders = <<HZ, HB>>
    /\ ~columnOrder.isNull /\ InSeq(1, columnOrder.list)
    /\ InSeq(HB, BeforeRemoval[1])
    /\ Len(processedDataArray.data) > 1

\* C8 as stated: adding column X and removing column X by name returns the
\* input grid, row for row and cell for cell, also when rows are shorter or
\* longer than the header row.
C8_AddThenRemoveRoundTrip ==
    (processedDataArray.called /\ ~processedDataArray.threw
        /\ addedCustomColumns = <<HD>> /\ selectedHeaders = <<HD>>
        /\ columnOrder.isNull /\ selectedMonths = <<>>)
    => processedDataArray.data = Adjusted

(***************************************************************************)
(* Inputs of the date column detection: a header row of header names with  *)
(* and without date keywords and excluded keywords, and rows of serial     *)
(* numbers, rows of text and blank rows, so that every share of valid      *)
(* dates among the sampled values of a column occurs.                      *)
(***************************************************************************)
HClaimId == Str(<<"C", "l", "a", "i", "m", " ", "I", "D">>)

HPaidDate == Str(<<"P", "A", "I", "D", " ", "D", "a", "t", "e">>)

HVisitDate == Str(<<"V", "i", "s", "i", "t", " ", "D", "a", "t", "e">>)

HBorn == Str(<<"B", "o", "r", "n">>)

DetectHeaders == {HClaimId, HPaidDate, HDate, HVisitDate, HBorn}

DetectCells == {Num(45000), Str(<<"x">>), EmptyStr}

\* the sample parseExcelFile passes: adjustedJsonData.slice(1, Math.min(6, length))
SampleEnd == 6

SampleRows(adjustedJsonData) == SubSeq(adjustedJsonData, 2, Min(SampleEnd, Len(adjustedJsonData)))

\* the grids of the detection: no row at all, or a header row (which may be
\* empty) and sample rows
DetectGrids ==
    {<<>>} \cup
    UNION {{<<h>> \o rows : rows \in SeqsOf({[k \in 1..Len(h) |-> c] : c \in DetectCells},
                                             0, MaxRows)} :
              h \in SeqsOf(DetectHeaders, 0, MaxDetectColumns)}

\* jsonData[headerRowIndex]: undefined beyond the last row
HeaderRowOf(data, headerRowIndex_) ==
    IF headerRowIndex_ < Len(data) THEN List(data[headerRowIndex_ + 1]) ELSE NullList

\* the sample rows of the grid; a grid without rows has none
DetectSample == IF Len(jsonData.list) = 0 THEN <<>> ELSE SampleRows(Adjusted)

InitDetect ==
    /\ headerRowIndex = 0
    /\ jsonData \in {List(g) : g \in DetectGrids}
    /\ headers = HeaderRowOf(jsonData.list, headerRowIndex).list
    /\ selectedDateColumnIndex = -1
    /\ monthCounts = NullList
    /\ selectedMonths = <<>>
    /\ selectedHeaders = <<>>
    /\ addedCustomColumns = <<>>
    /\ columnOrder = NullList
    /\ legacyDateParser \in BOOLEAN
    /\ filteredData = NotCalled
    /\ processedDataArray = NotCalled
    /\ separatedData = NoSeparation
    /\ dateColumns = NoDetection
    /\ ParserIdle
    /\ SessionIdle
    /\ UtilityIdle

CallFindAllDateColumns ==
    /\ dateColumns' = [called |-> TRUE,
                       list |-> findAllDateColumns(HeaderRowOf(jsonData.list, headerRowIndex),
                                                   DetectSample, legacyDateParser)]
    /\ UNCHANGED <<inputs, monthCounts, selectedMonths, filteredData, processedDataArray,
                   separatedData>>
    /\ UNCHANGED <<parserVars, sessionVars, utilityVars>>

NextDetect == CallFindAllDateColumns

SpecDetect == InitDetect /\ [][NextDetect]_vars

\* C10: no candidate of findAllDateColumns has a header that contains, in any
\* letter case, a keyword of the exclusion list.
C10_ExcludedKeywordOverride ==
    dateColumns.called
    => \A c \in 1..Len(dateColumns.list) : \A k \in 1..Len(excludedKeywords) :
          ~Includes(ToLowerCase(ToStr(dateColumns.list[c].header)), excludedKeywords[k])

C10_Witness ==
    /\ dateColumns.called
    /\ jsonData.list = <<(<<HPaidDate, HDate>>), <<Num(45000), Num(45000)>>,
                         <<Num(45000), Num(45000)>>>>
    /\ Len(dateColumns.list) = 1
    /\ dateColumns.list[1].index = 1

\* a column qualifies when its header is truthy and not excluded and its
\* blended confidence is above 0.7
Qualifies(headerRow, sampleRows, i) ==
    /\ Truthy(headerRow[i + 1])
    /\ ~IsExcluded(HeaderStr(headerRow[i + 1]))
    /\ ColumnConfidence(HeaderStr(headerRow[i + 1]), sampleRows, i, legacyDateParser) > 700

\* C11: every list of findAllDateColumns is sorted by descending confidence
\* with ties in ascending column index, every confidence is above 0.7 and at
\* most 1, no index occurs twice, and the list is empty when the header row
\* is missing or empty or no column qualifies.
C11_SortedAboveThreshold ==
    dateColumns.called
    => LET list == dateColumns.list
           headerRow == HeaderRowOf(jsonData.list, headerRowIndex)
       IN  /\ \A i, j \in 1..Len(list) :
                 i < j => \/ list[i].confidence > list[j].confidence
                          \/ /\ list[i].confidence = list[j].confidence
                             /\ list[i].index < list[j].index
           /\ \A i \in 1..Len(list) : list[i].confidence > 700 /\ list[i].confidence <= 1000
           /\ \A i, j \in 1..Len(list) : i # j => list[i].index # list[j].index
           /\ (headerRow.isNull \/ Len(headerRow.list) = 0) => list = <<>>
           /\ (\A i \in 0..(Len(headerRow.list) - 1) :
                   ~Qualifies(headerRow.list, DetectSample, i)) => list = <<>>

C11_Witness ==
    /\ dateColumns.called
    /\ Len(dateColumns.list) = 3
    /\ dateColumns.list[1].index = 1
    /\ dateColumns.list[2].index = 0
    /\ dateColumns.list[3].index = 2
    /\ dateColumns.list[2].confidence = dateColumns.list[3].confidence

(***************************************************************************)
(* Inputs of the date parser: strings N1 sep N2 sep YYYY with and without  *)
(* leading zeros, ISO strings, other text, numbers inside and outside the  *)
(* serial range, Date objects, empty and missing cells, under each assumed *)
(* order and each engine.                                                  *)
(***************************************************************************)
DayMonthNumbers == {1, 5, 12, 13, 31}

YearNumbers == {1899, 1900, 2024, 2100, 2101}

Separators == {"/", "-", "."}

\* the number as the sheet writes it, with a leading zero or without
Written(n, padded) == IF padded THEN PadStart2(NatToStr(n)) ELSE NatToStr(n)

DayMonthYearStrings ==
    {Written(n1, padded) \o <<sep>> \o Written(n2, padded) \o <<sep>> \o NatToStr(y) :
        n1 \in DayMonthNumbers, n2 \in DayMonthNumbers, y \in YearNumbers,
        sep \in Separators, padded \in BOOLEAN}

OtherStrings ==
    { <<"2", "0", "2", "4", "-", "0", "3", "-", "1", "5">>,
      <<"2", "0", "2", "4", "/", "3", "/", "5">>,
      <<"2", "0", "2", "4", "-", "1", "3", "-", "0", "1">>,
      <<"1", "8", "9", "9", "-", "0", "3", "-", "1", "5">>,
      <<"2", "0", "2", "4">>,
      <<"1", "5", "/", "0", "1", "/", "2", "0", "2", "4", " ", "1", "0", ":", "3", "0">>,
      <<" ", "1", "5", "/", "0", "1", "/", "2", "0", "2", "4", " ">>,
      <<"1", "/", "2", "/", "2", "0", "2", "4", "5">>,
      <<"n", "/", "a">>,
      <<" ">>,
      <<>> }

ParserNumbers == {0, 5, 13, 1900, 1901, 2024, 2099, 2100, 24999, 25000, 25001, 45000,
                  49999, 50000, 60000}

ParserDates == {DateObj(2024, 3), DateObj(1900, 1), DateObj(2100, 12), DateObj(1899, 12),
                DateObj(2101, 1)}

ParserCells ==
    {Str(str) : str \in DayMonthYearStrings \cup OtherStrings}
      \cup {Num(n) : n \in ParserNumbers} \cup ParserDates \cup {Undefined, Null}

AssumedOrders == {"DD/MM/YYYY", "MM/DD/YYYY", "auto"}

InitParser ==
    /\ jsonData = NullList
    /\ headers = <<>>
    /\ headerRowIndex = 0
    /\ selectedDateColumnIndex = -1
    /\ monthCounts = NullList
    /\ selectedMonths = <<>>
    /\ selectedHeaders = <<>>
    /\ addedCustomColumns = <<>>
    /\ columnOrder = NullList
    /\ legacyDateParser \in BOOLEAN
    /\ filteredData = NotCalled
    /\ processedDataArray = NotCalled
    /\ separatedData = NoSeparation
    /\ dateColumns = NoDetection
    /\ dateValue \in ParserCells
    /\ assumeFormat \in AssumedOrders
    /\ dateResult = NotParsed
    /\ SessionIdle
    /\ UtilityIdle

CallGetMonthAndYearFromDate ==
    /\ dateResult' = [called |-> TRUE,
                      result |-> getMonthAndYearFromDate(dateValue, assumeFormat,
                                                         legacyDateParser)]
    /\ UNCHANGED <<inputs, monthCounts, selectedMonths, filteredData, processedDataArray,
                   separatedData, dateColumns, dateValue, assumeFormat, sessionVars, utilityVars>>

NextParser == CallGetMonthAndYearFromDate

SpecParser == InitParser /\ [][NextParser]_vars

\* the month codes "01" .. "12"
MonthCodes == {PadStart2(NatToStr(m)) : m \in 1..12}

\* the strings of the years 1900 .. 2100
YearCodes == {NatToStr(y) : y \in 1900..2100}

\* C12: getMonthAndYearFromDate returns null or a pair whose month is one of
\* "01" .. "12" and whose year is between 1900 and 2100.
C12_NullOrMonthYearInRange ==
    dateResult.called
    => \/ dateResult.result = NoDate
       \/ /\ dateResult.result.month \in MonthCodes
          /\ dateResult.result.year \in YearCodes

C12_Witness ==
    /\ dateResult.called
    /\ dateValue = Str(<<"2", "0", "2", "4">>)
    /\ dateResult.result = [month |-> <<"0", "1">>, year |-> <<"2", "0", "2", "4">>]

\* C13 as stated: a number outside the open range (25000, 50000) is no date.
C13_NumberOutsideSerialRangeIsNull ==
    (dateResult.called /\ dateValue.t = "num" /\ (dateValue.n <= 25000 \/ dateValue.n >= 50000))
    => dateResult.result = NoDate

\* the fields of a string between its separators
RECURSIVE Fields(_)
Fields(s) ==
    IF \A i \in 1..Len(s) : s[i] \notin Separators THEN <<s>>
    ELSE LET p == CHOOSE i \in 1..Len(s) : s[i] \in Separators /\ \A j \in 1..(i - 1) : s[j] \notin Separators
         IN  <<SubSeq(s, 1, p - 1)>> \o Fields(SubSeq(s, p + 1, Len(s)))

AllDigits(s) == s # <<>> /\ \A i \in 1..Len(s) : IsDigit(s[i])

\* the cell is a string N1 sep N2 sep YYYY with a year from 1900 to 2100
IsDayMonthYear(value) ==
    /\ value.t = "str"
    /\ Len(Fields(value.s)) = 3
    /\ \A k \in 1..3 : AllDigits(Fields(value.s)[k])
    /\ Len(Fields(value.s)[1]) \in {1, 2}
    /\ Len(Fields(value.s)[2]) \in {1, 2}
    /\ Len(Fields(value.s)[3]) = 4
    /\ ParseInt(Fields(value.s)[3]) \in 1900..2100

\* C14: for a string N1 sep N2 sep YYYY with a year from 1900 to 2100 the
\* parser returns the year YYYY and, under DD/MM/YYYY, the month N2 when N2 is
\* 1 .. 12 and the month N1 when N2 > 12 and N1 is 1 .. 12; under MM/DD/YYYY
\* the month N1 when N1 is 1 .. 12 and the month N2 when N1 > 12 and N2 is
\* 1 .. 12.
C14_AssumedOrderAndAutoDetect ==
    (dateResult.called /\ IsDayMonthYear(dateValue))
    => LET n1 == ParseInt(Fields(dateValue.s)[1])
           n2 == ParseInt(Fields(dateValue.s)[2])
           Expect(n) == dateResult.result = [month |-> PadStart2(NatToStr(n)),
                                             year |-> Fields(dateValue.s)[3]]
       IN  /\ (assumeFormat = "DD/MM/YYYY" /\ n2 \in 1..12) => Expect(n2)
           /\ (assumeFormat = "DD/MM/YYYY" /\ n2 > 12 /\ n1 \in 1..12) => Expect(n1)
           /\ (assumeFormat = "MM/DD/YYYY" /\ n1 \in 1..12) => Expect(n1)
           /\ (assumeFormat = "MM/DD/YYYY" /\ n1 > 12 /\ n2 \in 1..12) => Expect(n2)

C14_Witness ==
    /\ dateResult.called
    /\ assumeFormat = "DD/MM/YYYY"
    /\ dateValue = Str(<<"1", "2", "-", "3", "1", "-", "2", "0", "2", "4">>)
    /\ dateResult.result = [month |-> <<"1", "2">>, year |-> <<"2", "0", "2", "4">>]

(***************************************************************************)
(* Inputs of the split: a grid with an amount column and a date column,    *)
(* rows that may be empty, the count of the grid with at most one month    *)
(* selected, headers selected for removal, an optional added column and a  *)
(* column order.                                                           *)
(***************************************************************************)
SplitCells ==
    { Str(<<"1", "5", "/", "0", "1", "/", "2", "0", "2", "4">>),
      Str(<<"0", "3", "/", "0", "2", "/", "2", "0", "2", "3">>),
      Str(<<"n", "/", "a">>) }

SplitRows == {<<Num(5), d>> : d \in SplitCells} \cup {<<>>}

InitSplit ==
    /\ jsonData \in {List(<<(<<HPaid, HDate>>)>> \o rows) : rows \in SeqsOf(SplitRows, 0, MaxRows)}
    /\ headers = jsonData.list[1]
    /\ headerRowIndex = 0
    /\ selectedDateColumnIndex \in {-1, 1}
    /\ legacyDateParser = FALSE
    /\ monthCounts = countEntriesByMonthWithColumn(Adjusted, selectedDateColumnIndex,
                                                   legacyDateParser)
    /\ selectedMonths \in {<<>>} \cup {<<monthCounts.list[k].month>> : k \in 1..Len(monthCounts.list)}
    /\ selectedHeaders \in {<<>>, <<HPaid>>, <<HDate>>, <<HZ>>, <<HPaid, HZ>>, <<HZ, HDate>>}
    /\ addedCustomColumns \in {<<>>, <<HZ>>}
    /\ columnOrder \in {NullList} \cup
          {List(q) : q \in DistinctSeqsOf(0..(1 + Len(addedCustomColumns)),
                                          2 + Len(addedCustomColumns),
                                          2 + Len(addedCustomColumns))}
    /\ filteredData = NotCalled
    /\ processedDataArray = NotCalled
    /\ separatedData = NoSeparation
    /\ dateColumns = NoDetection
    /\ ParserIdle
    /\ SessionIdle
    /\ UtilityIdle

NoDataOrDateColumn == "Cannot separate by months: No data or date column selected"

NoValidDateEntries == "No valid date entries found to separate by months after applying filters"

\* what processSeparation sets after separateDataByMonths has returned
SeparationOutcome(separated) ==
    IF separated.isNull \/ Len(separated.monthsWithData) = 0
    THEN [error |-> NoValidDateEntries, separatedData |-> NullSeparated]
    ELSE [error |-> "", separatedData |-> separated]

\* processSeparation, the handler of the split
ProcessSeparation ==
    /\ IF jsonData.isNull \/ selectedDateColumnIndex = -1
       THEN /\ error' = NoDataOrDateColumn
            /\ UNCHANGED separatedData
       ELSE LET Set(outcome) ==
                    /\ error' = outcome.error
                    /\ separatedData' = [called |-> TRUE, result |-> outcome.separatedData]
            IN  Set(SeparationOutcome(separateDataByMonths(jsonData, selectedDateColumnIndex,
                        headerRowIndex, selectedHeaders, selectedMonths, monthCounts,
                        addedCustomColumns, columnOrder, headers, addedCustomColumns,
                        legacyDateParser)))
    /\ UNCHANGED <<inputs, monthCounts, selectedMonths, filteredData, processedDataArray,
                   dateColumns, parserVars,
                   utilityVars>>
    /\ UNCHANGED <<fileName, allDateColumns, dateColumnIndex, isLoading, fileReads>>

NextSplit ==
    \/ CallSeparateDataByMonths
    \/ ProcessSeparation

SpecSplit == InitSplit /\ [][NextSplit]_vars

\* the grid has data rows and the header of its selected date column is
\* selected for removal
DateColumnRemoved ==
    /\ Len(jsonData.list) >= 2
    /\ selectedDateColumnIndex # -1
    /\ InSeq(At(Adjusted[1], selectedDateColumnIndex), selectedHeaders)

\* a grid of the same header row whose date column is kept and has no
\* parseable date
NoDatesGrid == List(<<Adjusted[1], <<Num(5), Str(<<"n", "/", "a">>)>>>>)

\* what processSeparation sets for the grid without a parseable date
KeptWithoutDates ==
    SeparationOutcome(separateDataByMonths(NoDatesGrid, selectedDateColumnIndex, 0, <<>>, <<>>,
                          NullList, <<>>, NullList, NoDatesGrid.list[1], <<>>, legacyDateParser))

\* C15 as stated: with the date column selected for removal the split returns
\* null without building buckets, and the error and result that
\* processSeparation sets differ from those of a split that keeps the date
\* column and finds no parseable date.
C15_RemovedDateColumnIsDistinct ==
    /\ (separatedData.called /\ DateColumnRemoved) => separatedData.result = NullSeparated
    /\ (separatedData.called /\ DateColumnRemoved /\ error # "")
       => [error |-> error, separatedData |-> separatedData.result] # KeptWithoutDates

\* the split returned a result object
SplitReturned == separatedData.called /\ ~separatedData.result.isNull

RECURSIVE SumOfRows(_)
SumOfRows(list) == IF list = <<>> THEN 0 ELSE Len(list[1].rows) + SumOfRows(Tail(list))

\* year and month of a bucket as one number
YearMonthNumber(b) == ParseInt(b.year) * 100 + ParseInt(b.code)

\* C16: in every result of separateDataByMonths assignedRows + invalidDateRows
\* = totalRows = the number of data rows of the processed grid; a bucket holds
\* exactly the rows whose date parses to its year and month, so that a dated
\* row is in one bucket and an undated row in none; no bucket is empty; the
\* buckets are in ascending order of year, then month.
C16_SplitAccounting ==
    SplitReturned =>
      LET result == separatedData.result
          list == separatedData.result.monthsWithData
          rows == DataRows(SplitInput)
      IN  /\ result.assignedRows + result.invalidDateRows = result.totalRows
          /\ result.totalRows = Len(rows)
          /\ result.invalidDateRows =
                 Len(SelectSeq(rows, LAMBDA row : Parse(row, SplitDateColumn) = NoDate))
          /\ result.assignedRows = SumOfRows(list)
          /\ \A i \in 1..Len(list) :
                /\ Len(list[i].rows) > 0
                /\ list[i].rows = RowsOfMonth(rows, SplitDateColumn, list[i].year, list[i].code)
          /\ \A i, j \in 1..Len(list) :
                i < j => YearMonthNumber(list[i]) < YearMonthNumber(list[j])

C16_Witness ==
    /\ SplitReturned
    /\ Len(Adjusted) = 3
    /\ Adjusted[2] = <<Num(5), Str(<<"1", "5", "/", "0", "1", "/", "2", "0", "2", "4">>)>>
    /\ Len(separatedData.result.monthsWithData) = 2
    /\ separatedData.result.monthsWithData[1].year = <<"2", "0", "2", "3">>
    /\ separatedData.result.assignedRows = 2

\* the processed rows whose original row has a date of the given year and month
RECURSIVE GroupRows(_, _, _, _, _)
GroupRows(processed, original, index, year, month) ==
    IF processed = <<>> \/ original = <<>> THEN <<>>
    ELSE (IF Parse(original[1], index) = [month |-> month, year |-> year]
          THEN <<processed[1]>> ELSE <<>>)
         \o GroupRows(Tail(processed), Tail(original), index, year, month)

\* the data rows of the grid that the month filter keeps
MonthFilteredRows ==
    DataRows(FilterStage(Adjusted, selectedMonths, monthCounts, selectedDateColumnIndex,
                         legacyDateParser).data)

\* C17: with unique header names and the date column kept, whatever columns
\* are added, reordered and removed, the processed grid has one row per
\* month-filtered original row, and each bucket holds the processed rows of
\* the original rows whose original date column has the bucket's year and
\* month; every dated original row has its bucket.
C17_SplitFollowsDateColumn ==
    SplitReturned =>
      LET list == separatedData.result.monthsWithData
      IN  /\ Len(DataRows(SplitInput)) = Len(MonthFilteredRows)
          /\ \A i \in 1..Len(list) :
                list[i].rows = GroupRows(DataRows(SplitInput), MonthFilteredRows,
                                         selectedDateColumnIndex, list[i].year, list[i].code)
          /\ \A r \in 1..Len(MonthFilteredRows) :
                Parse(MonthFilteredRows[r], selectedDateColumnIndex) # NoDate
                => \E i \in 1..Len(list) :
                      Parse(MonthFilteredRows[r], selectedDateColumnIndex)
                        = [month |-> list[i].code, year |-> list[i].year]

C17_Witness ==
    /\ SplitReturned
    /\ addedCustomColumns = <<HZ>>
    /\ columnOrder = List(<<1, 2, 0>>)
    /\ selectedHeaders = <<HPaid>>
    /\ Len(selectedMonths) = 1
    /\ separatedData.result.headerRow = <<HDate, HZ>>
    /\ Len(separatedData.result.monthsWithData) = 1
    /\ separatedData.result.monthsWithData[1].rows
         = <<(<<Str(<<"1", "5", "/", "0", "1", "/", "2", "0", "2", "4">>), EmptyStr>>)>>
    /\ Len(DataRows(Adjusted)) = 2

(***************************************************************************)
(* The upload session (services/fileHandling.js and the handlers of        *)
(* components/ExcelColumnRemover.js). A file is a name and the rows of its *)
(* first sheet; header cells are strings.                                  *)
(***************************************************************************)
MaxUploads == 2

MaxAddedColumns == 1

NoFile == [isNull |-> TRUE, name |-> <<>>, sheet |-> <<>>]

File(name, sheet) == [isNull |-> FALSE, name |-> name, sheet |-> sheet]

\* file.name.split('.').pop().toLowerCase()
FileExt(name) ==
    IF \E i \in 1..Len(name) : name[i] = "."
    THEN LET last == CHOOSE i \in 1..Len(name) :
                        name[i] = "." /\ \A j \in (i + 1)..Len(name) : name[j] # "."
         IN  ToLowerCase(SubSeq(name, last + 1, Len(name)))
    ELSE ToLowerCase(name)

validateFileType(file) ==
    IF file.isNull THEN FALSE
    ELSE FileExt(file.name) \in {<<"x", "l", "s", "x">>, <<"x", "l", "s">>, <<"c", "s", "v">>}

\* a row of labels: not empty, every cell a string, and no fewer cells than
\* the row before it and the row after it
IsLabelRow(jsonData_, i) ==
    /\ Len(jsonData_[i]) > 0
    /\ \A k \in 1..Len(jsonData_[i]) : jsonData_[i][k].t = "str" /\ jsonData_[i][k].s # <<>>
    /\ \A j \in {i - 1, i + 1} \cap (1..Len(jsonData_)) : Len(jsonData_[i]) >= Len(jsonData_[j])

\* the index of the first row of labels, 0 when there is none
findHeaderRow(jsonData_) ==
    IF \E i \in 1..Len(jsonData_) : IsLabelRow(jsonData_, i)
    THEN (CHOOSE i \in 1..Len(jsonData_) :
            IsLabelRow(jsonData_, i) /\ \A j \in 1..(i - 1) : ~IsLabelRow(jsonData_, j)) - 1
    ELSE 0

findDateColumn(headerRow, sampleRows, legacy) ==
    LET Top(dateColumns_) == IF Len(dateColumns_) > 0 THEN dateColumns_[1].index ELSE -1
    IN  Top(findAllDateColumns(headerRow, sampleRows, legacy))

countEntriesByMonth(jsonData_, legacy) ==
    IF Len(jsonData_) < 2 THEN NullList
    ELSE LET OfColumn(dateColIndex) ==
                 IF dateColIndex = -1 THEN NullList
                 ELSE countEntriesByMonthWithColumn(jsonData_, dateColIndex, legacy)
         IN  OfColumn(findDateColumn(List(jsonData_[1]),
                                     SubSeq(jsonData_, 2, Min(11, Len(jsonData_))), legacy))

yellowColumns ==
    << <<"M", "o", "b", "i", "l", "e">>,
       <<"P", "a", "y", "e", "r">>,
       <<"C", "l", "a", "i", "m", " ", "I", "D">>,
       <<"S", "u", "b", "m", "i", "s", "s", "i", "o", "n", " ", "D", "a", "t", "e">>,
       <<"X", "m", "l", " ", "F", "i", "l", "e", "N", "a", "m", "e">>,
       <<"D", "o", "c", "t", "o", "r">>,
       <<"C", "a", "r", "d", " ", "N", "o">>,
       <<"S", "e", "r", "v", "i", "c", "e", "s">> >>

\* header === col || header.toLowerCase() === col.toLowerCase()
MatchesColumn(header, col) == header.s = col \/ ToLowerCase(header.s) = ToLowerCase(col)

\* the loop over the yellow columns that some header matches
RECURSIVE YellowLoop(_, _, _)
YellowLoop(cols, headers_, newSelection) ==
    IF cols = <<>> THEN newSelection
    ELSE IF \E k \in 1..Len(headers_) : MatchesColumn(headers_[k], cols[1])
    THEN LET Push(matchedHeader) ==
                 IF InSeq(matchedHeader, newSelection) THEN newSelection
                 ELSE Append(newSelection, matchedHeader)
         IN  YellowLoop(Tail(cols), headers_,
                 Push(headers_[CHOOSE k \in 1..Len(headers_) :
                                 /\ MatchesColumn(headers_[k], cols[1])
                                 /\ \A j \in 1..(k - 1) : ~MatchesColumn(headers_[j], cols[1])]))
    ELSE YellowLoop(Tail(cols), headers_, newSelection)

selectYellowColumns(headers_, currentSelectedHeaders) ==
    YellowLoop(yellowColumns, headers_, currentSelectedHeaders)

Rejected(message) == [ok |-> FALSE, message |-> message]

\* the object that parseExcelFile resolves with
Resolved(jsonData_, headerRow, headerRowIndex_, monthData, dateColumnIndex_, name) ==
    [ok |-> TRUE,
     parsedData |-> [jsonData |-> jsonData_, headers |-> headerRow,
                     headerRowIndex |-> headerRowIndex_, monthCounts |-> monthData,
                     dateColumnIndex |-> dateColumnIndex_, fileName |-> name]]

\* reader.onload of parseExcelFile; reading jsonData[5] of a sheet of fewer
\* than six rows throws, and the exception is caught
parseExcelFile(file, legacy) ==
    IF Len(file.sheet) = 0 THEN Rejected("The file appears to be empty")
    ELSE LET OfAdjusted(headerRow, headerRowIndex_, adjustedJsonData) ==
                 IF Len(file.sheet) < 6
                 THEN Rejected("Error processing file. Please try a different file.")
                 ELSE Resolved(file.sheet, headerRow, headerRowIndex_,
                               countEntriesByMonth(adjustedJsonData, legacy),
                               findDateColumn(List(headerRow), SampleRows(adjustedJsonData),
                                              legacy),
                               file.name)
             OfHeaderRow(headerRowIndex_, headerRow) ==
                 IF headerRow.isNull \/ Len(headerRow.list) = 0
                 THEN Rejected("Could not detect headers in the file")
                 ELSE OfAdjusted(headerRow.list, headerRowIndex_,
                                 AdjustedData(file.sheet, headerRowIndex_))
             OfIndex(headerRowIndex_) ==
                 OfHeaderRow(headerRowIndex_, HeaderRowOf(file.sheet, headerRowIndex_))
         IN  OfIndex(findHeaderRow(file.sheet))

resetFileState_KeepSelectedMonths ==
    [headers |-> <<>>, selectedHeaders |-> <<>>, fileName |-> <<>>, monthCounts |-> NullList,
     selectedMonths |-> selectedMonths, dateColumnIndex |-> -1, jsonData |-> NullList,
     headerRowIndex |-> 0, error |-> ""]

resetFileState ==
    [headers |-> <<>>, selectedHeaders |-> <<>>, fileName |-> <<>>, monthCounts |-> NullList,
     selectedMonths |-> <<>>, dateColumnIndex |-> -1, jsonData |-> NullList,
     headerRowIndex |-> 0, error |-> ""]

(***************************************************************************)
(* The files of the session.                                               *)
(***************************************************************************)
\* five rows of a serial date of January 2024 below the header row Date, Paid
SheetA ==
    <<(<<HDate, HPaid>>)>>
    \o [r \in 1..5 |-> <<Num(45300), Num(5)>>]

\* a title row, the header row Claim ID, Visit Date, and five rows of a serial
\* date
SheetB ==
    <<TitleRow, <<HClaimId, HVisitDate>>>>
    \o [r \in 1..5 |-> <<Num(7), Num(45000)>>]

SheetShort == <<(<<HDate, HPaid>>), <<Num(45000), Num(5)>>>>

FileA == File(<<"a", ".", "x", "l", "s", "x">>, SheetA)

FileB == File(<<"b", ".", "X", "L", "S">>, SheetB)

FileShort == File(<<"c", ".", "c", "s", "v">>, SheetShort)

FileText == File(<<"n", ".", "t", "x", "t">>, SheetA)

Files == {FileA, FileB, FileShort, FileText}

InitSession ==
    /\ jsonData = NullList
    /\ headers = <<>>
    /\ headerRowIndex = 0
    /\ selectedDateColumnIndex = -1
    /\ monthCounts = NullList
    /\ selectedMonths = <<>>
    /\ selectedHeaders = <<>>
    /\ addedCustomColumns = <<>>
    /\ columnOrder = NullList
    /\ legacyDateParser = FALSE
    /\ filteredData = NotCalled
    /\ processedDataArray = NotCalled
    /\ separatedData = NoSeparation
    /\ dateColumns = NoDetection
    /\ ParserIdle
    /\ SessionIdle
    /\ UtilityIdle

\* onFileUpload: the reset of the state hooks, then handleFileUpload up to
\* the start of the read
OnFileUpload ==
    \E file \in Files \cup {NoFile} :
        /\ validateFileType(file) => Len(fileReads) < MaxUploads
        /\ headers' = resetFileState.headers
        /\ selectedHeaders' = resetFileState.selectedHeaders
        /\ processedDataArray' = NotCalled
        /\ fileName' = resetFileState.fileName
        /\ monthCounts' = resetFileState.monthCounts
        /\ selectedMonths' = resetFileState.selectedMonths
        /\ dateColumnIndex' = resetFileState.dateColumnIndex
        /\ jsonData' = resetFileState.jsonData
        /\ headerRowIndex' = resetFileState.headerRowIndex
        /\ columnOrder' = NullList
        /\ addedCustomColumns' = <<>>
        /\ separatedData' = NoSeparation
        /\ allDateColumns' = <<>>
        /\ selectedDateColumnIndex' = -1
        /\ IF file.isNull
           THEN /\ error' = ""
                /\ UNCHANGED <<isLoading, fileReads>>
           ELSE IF ~validateFileType(file)
           THEN /\ error' = "Please upload an Excel or CSV file"
                /\ UNCHANGED <<isLoading, fileReads>>
           ELSE /\ error' = ""
                /\ isLoading' = TRUE
                /\ fileReads' = Append(fileReads, [file |-> file, state |-> "pending"])
        /\ UNCHANGED <<legacyDateParser, filteredData, dateColumns, parserVars,
                   utilityVars>>

\* parsedData.allDateColumns || []
AllDateColumnsOf(parsedData) ==
    IF "allDateColumns" \in DOMAIN parsedData /\ Len(parsedData.allDateColumns) >= 0
    THEN parsedData.allDateColumns
    ELSE <<>>

\* parsedData.selectedDateColumnIndex || -1
SelectedDateColumnIndexOf(parsedData) ==
    IF "selectedDateColumnIndex" \in DOMAIN parsedData /\ parsedData.selectedDateColumnIndex # 0
    THEN parsedData.selectedDateColumnIndex
    ELSE -1

\* the onSuccess callback of onFileUpload
OnSuccess(parsedData) ==
    /\ jsonData' = List(parsedData.jsonData)
    /\ headers' = parsedData.headers
    /\ headerRowIndex' = parsedData.headerRowIndex
    /\ monthCounts' = parsedData.monthCounts
    /\ dateColumnIndex' = parsedData.dateColumnIndex
    /\ fileName' = parsedData.fileName
    /\ allDateColumns' = AllDateColumnsOf(parsedData)
    /\ selectedDateColumnIndex' = SelectedDateColumnIndexOf(parsedData)
    /\ selectedHeaders' = selectYellowColumns(parsedData.headers, <<>>)
    /\ UNCHANGED error

\* a pending read loads: parseExcelFile settles and handleFileUpload resumes
\* with onSuccess or onError, then onLoadingEnd
CompleteRead ==
    \E i \in 1..Len(fileReads) :
        /\ fileReads[i].state = "pending"
        /\ LET Settle(parsed) ==
                   IF parsed.ok
                   THEN /\ OnSuccess(parsed.parsedData)
                        /\ fileReads' = [fileReads EXCEPT ![i].state = "resolved"]
                   ELSE /\ error' = parsed.message
                        /\ fileReads' = [fileReads EXCEPT ![i].state = "rejected"]
                        /\ UNCHANGED <<jsonData, headers, headerRowIndex, monthCounts,
                                       dateColumnIndex, fileName, allDateColumns,
                                       selectedDateColumnIndex, selectedHeaders>>
           IN  Settle(parseExcelFile(fileReads[i].file, legacyDateParser))
        /\ isLoading' = FALSE
        /\ UNCHANGED <<selectedMonths, addedCustomColumns, columnOrder, legacyDateParser,
                       filteredData, processedDataArray, separatedData, dateColumns, parserVars,
                   utilityVars>>

\* reader.onerror: a pending read fails
FailRead ==
    \E i \in 1..Len(fileReads) :
        /\ fileReads[i].state = "pending"
        /\ fileReads' = [fileReads EXCEPT ![i].state = "rejected"]
        /\ error' = "Error reading file"
        /\ isLoading' = FALSE
        /\ UNCHANGED <<inputs, monthCounts, selectedMonths, filteredData, processedDataArray,
                       separatedData, dateColumns, parserVars,
                   utilityVars>>
        /\ UNCHANGED <<fileName, allDateColumns, dateColumnIndex>>

HandleToggleMonth ==
    \E k \in 1..Len(monthCounts.list) :
        /\ selectedMonths' = toggleMonthSelection(monthCounts.list[k].month, selectedMonths)
        /\ UNCHANGED <<inputs, monthCounts, filteredData, processedDataArray, separatedData,
                       dateColumns, parserVars, sessionVars, utilityVars>>

\* handleDateColumnChange without setSelectedMonths([])
HandleDateColumnChange_KeepSelection ==
    \E newDateColumnIndex \in {-1, 1} :
        /\ newDateColumnIndex # selectedDateColumnIndex
        /\ selectedDateColumnIndex' = newDateColumnIndex
        /\ IF ~jsonData.isNull /\ newDateColumnIndex # -1
           THEN /\ monthCounts' = countEntriesByMonthWithColumn(
                                      <<headers>> \o SubSeq(jsonData.list, headerRowIndex + 2,
                                                            Len(jsonData.list)),
                                      newDateColumnIndex, legacyDateParser)
                /\ separatedData' = NoSeparation
                /\ UNCHANGED selectedMonths
           ELSE UNCHANGED <<monthCounts, selectedMonths, separatedData>>
        /\ UNCHANGED <<jsonData, headers, headerRowIndex, selectedHeaders, addedCustomColumns,
                       columnOrder, legacyDateParser, filteredData, processedDataArray,
                       dateColumns, parserVars, sessionVars, utilityVars>>

\* handleDateColumnChange of a column index, or of -1 for no column
HandleDateColumnChange ==
    \E newDateColumnIndex \in {-1, 1} :
        /\ newDateColumnIndex # selectedDateColumnIndex
        /\ selectedDateColumnIndex' = newDateColumnIndex
        /\ IF ~jsonData.isNull /\ newDateColumnIndex # -1
           THEN /\ monthCounts' = countEntriesByMonthWithColumn(
                                      <<headers>> \o SubSeq(jsonData.list, headerRowIndex + 2,
                                                            Len(jsonData.list)),
                                      newDateColumnIndex, legacyDateParser)
                /\ selectedMonths' = <<>>
                /\ separatedData' = NoSeparation
           ELSE UNCHANGED <<monthCounts, selectedMonths, separatedData>>
        /\ UNCHANGED <<jsonData, headers, headerRowIndex, selectedHeaders, addedCustomColumns,
                       columnOrder, legacyDateParser, filteredData, processedDataArray,
                       dateColumns, parserVars, sessionVars, utilityVars>>

HandleColumnOrderChange ==
    \E newOrder \in {List(<<1, 0>>)} :
        /\ columnOrder' = newOrder
        /\ UNCHANGED <<jsonData, headers, headerRowIndex, selectedDateColumnIndex, monthCounts,
                       selectedMonths, selectedHeaders, addedCustomColumns, legacyDateParser,
                       filteredData, processedDataArray, separatedData, dateColumns,
                       parserVars, sessionVars, utilityVars>>

HandleAddCustomColumn ==
    \E action \in {"add", "remove"} :
        /\ action = "add" => Len(addedCustomColumns) < MaxAddedColumns
        /\ addedCustomColumns' = IF action = "remove"
                                 THEN SelectSeq(addedCustomColumns, LAMBDA col : col # HZ)
                                 ELSE Append(addedCustomColumns, HZ)
        /\ UNCHANGED <<jsonData, headers, headerRowIndex, selectedDateColumnIndex, monthCounts,
                       selectedMonths, selectedHeaders, columnOrder, legacyDateParser,
                       filteredData, processedDataArray, separatedData, dateColumns,
                       parserVars, sessionVars, utilityVars>>

NextSession ==
    \/ OnFileUpload
    \/ CompleteRead
    \/ FailRead
    \/ HandleToggleMonth
    \/ HandleDateColumnChange
    \/ HandleColumnOrderChange
    \/ HandleAddCustomColumn
    \/ ProcessSeparation

SpecSession == InitSession /\ [][NextSession]_vars

(***************************************************************************)
(* Properties of the upload session.                                       *)
(***************************************************************************)
\* every read that was started has settled
AllSettled == \A i \in 1..Len(fileReads) : fileReads[i].state # "pending"

\* the grid of a parsed file below its header row
AdjustedOf(parsedData) == AdjustedData(parsedData.jsonData, parsedData.headerRowIndex)

\* the session holds the data of the parsed file: its grid, headers, header
\* row index, name and auto-selected headers, a bucket list counted on its
\* grid, and only selected months of that list
SessionIsOf(parsedData) ==
    /\ jsonData = List(parsedData.jsonData)
    /\ headers = parsedData.headers
    /\ headerRowIndex = parsedData.headerRowIndex
    /\ fileName = parsedData.fileName
    /\ selectedHeaders = selectYellowColumns(parsedData.headers, <<>>)
    /\ monthCounts \in {parsedData.monthCounts}
                       \cup {countEntriesByMonthWithColumn(AdjustedOf(parsedData), k,
                                                           legacyDateParser) : k \in {1}}
    /\ \A m \in 1..Len(selectedMonths) :
          \E k \in 1..Len(monthCounts.list) : monthCounts.list[k].month = selectedMonths[m]

\* C18 as stated: once every read has settled, the session that holds a file
\* holds the file of the upload that was started last, and nothing derived
\* from the file of an earlier upload.
C18_LastUploadWins ==
    (Len(fileReads) >= 2 /\ AllSettled /\ fileReads[Len(fileReads)].state = "resolved"
       /\ ~jsonData.isNull)
    => SessionIsOf(parseExcelFile(fileReads[Len(fileReads)].file, legacyDateParser).parsedData)

\* the values that onFileUpload resets the derived state to
ResetValues ==
    /\ headers = <<>>
    /\ selectedHeaders = <<>>
    /\ monthCounts = NullList
    /\ selectedMonths = <<>>
    /\ jsonData = NullList
    /\ headerRowIndex = 0
    /\ columnOrder = NullList
    /\ addedCustomColumns = <<>>
    /\ separatedData = NoSeparation
    /\ allDateColumns = <<>>
    /\ selectedDateColumnIndex = -1

\* C19: in every step that starts the read of a file, the derived state
\* (headers, selected headers, buckets, selected months, grid, header row
\* index, column order, added columns, split, date candidates and selected
\* date column) holds its initial values when the read starts.
C19_ResetBeforeRead == [][Len(fileReads') > Len(fileReads) => ResetValues']_vars

C19_Witness ==
    /\ Len(fileReads) = 2
    /\ fileReads[1] = [file |-> FileB, state |-> "resolved"]
    /\ fileReads[2] = [file |-> FileA, state |-> "pending"]
    /\ ResetValues
    /\ isLoading

\* the candidates of date-column detection on the header row and the sample
\* rows of a parsed file
CandidatesOf(parsedData) ==
    findAllDateColumns(List(parsedData.headers), SampleRows(AdjustedOf(parsedData)),
                       legacyDateParser)

\* C20 as stated: in every step in which a read resolves with a file that has
\* a date-column candidate, the selected date column index becomes the index
\* of the top candidate and the session holds the ranked candidate list.
C20_TopCandidateSelected ==
    [][\A i \in 1..Len(fileReads) :
          (fileReads[i].state = "pending" /\ fileReads'[i].state = "resolved")
          => LET Adopted(candidates) ==
                     candidates # <<>>
                     => /\ selectedDateColumnIndex' = candidates[1].index
                        /\ allDateColumns' = candidates
             IN  Adopted(CandidatesOf(parseExcelFile(fileReads[i].file,
                                                     legacyDateParser).parsedData))]_vars

\* C21: in every step in which handleDateColumnChange selects a column of a
\* loaded grid other than the selected one, monthCounts becomes the count of
\* the current grid by the new column, selectedMonths becomes empty and
\* separatedData null, and selectedHeaders, columnOrder and addedCustomColumns
\* do not change.
C21_DateColumnChangeRecounts ==
    [][(/\ selectedDateColumnIndex' # selectedDateColumnIndex
        /\ selectedDateColumnIndex' # -1
        /\ ~jsonData.isNull)
       => /\ monthCounts' = countEntriesByMonthWithColumn(Adjusted, selectedDateColumnIndex',
                                                          legacyDateParser)
          /\ selectedMonths' = <<>>
          /\ separatedData' = NoSeparation
          /\ UNCHANGED <<selectedHeaders, columnOrder, addedCustomColumns>>]_vars

C21_Witness ==
    /\ fileName = FileB.name
    /\ selectedDateColumnIndex = 1
    /\ Len(monthCounts.list) = 1
    /\ monthCounts.list[1].count = 5
    /\ selectedMonths = <<>>
    /\ separatedData = NoSeparation
    /\ selectedHeaders = <<HClaimId>>
    /\ columnOrder = List(<<1, 0>>)
    /\ addedCustomColumns = <<HZ>>
    /\ error = NoValidDateEntries

OrderHeaderRows == [1..3 -> {HA, HB}] \cup {<<HA, HB, HC>>}

OrderRows == {<<Str(<<"1">>), Str(<<"2">>), Str(<<"3">>)>>, <<Str(<<"1">>)>>}

OrderPositions == 0..4

InitOrder ==
    /\ headerRowIndex = 0
    /\ jsonData \in {List(<<h>> \o rows) : h \in OrderHeaderRows,
                                           rows \in SeqsOf(OrderRows, 0, MaxRows)}
    /\ headers = jsonData.list[1]
    /\ selectedDateColumnIndex = -1
    /\ monthCounts = NullList
    /\ selectedMonths = <<>>
    /\ selectedHeaders \in {<<>>, <<HA>>, <<HB>>, <<HA, HD>>}
    /\ addedCustomColumns \in {<<>>, <<HD>>}
    /\ columnOrder \in {NullList} \cup {List(q) : q \in SeqsOf(OrderPositions, 1, 2)}
    /\ legacyDateParser = FALSE
    /\ filteredData = NotCalled
    /\ processedDataArray = NotCalled
    /\ separatedData = NoSeparation
    /\ dateColumns = NoDetection
    /\ ParserIdle
    /\ SessionIdle
    /\ UtilityIdle

NextOrder == CallProcessExcelData

SpecOrder == InitOrder /\ [][NextOrder]_vars

\* the grid after the addition: the new names after the header row, and an
\* empty cell for each at the end of every data row
AfterAddition ==
    [r \in 1..Len(Adjusted) |->
        Adjusted[r] \o (IF r = 1 THEN addedCustomColumns
                        ELSE [k \in 1..Len(addedCustomColumns) |-> EmptyStr])]

\* the position of the first column of the grid after the addition that has
\* the name, from 0
FirstColumnNamed(name) ==
    CHOOSE i \in 0..(Len(AfterAddition[1]) - 1) :
        /\ AfterAddition[1][i + 1] = name
        /\ \A j \in 0..(i - 1) : AfterAddition[1][j + 1] # name

\* position p of the combined header list refers to a name of the header row
Resolves(p) == p < Len(CombinedHeaders) /\ InSeq(CombinedHeaders[p + 1], AfterAddition[1])

\* the columns the order refers to: for each position that resolves, the
\* first column that has the name at that position
ReferencedColumns ==
    LET resolving == SelectSeq(columnOrder.list, Resolves)
    IN  [k \in 1..Len(resolving) |-> FirstColumnNamed(CombinedHeaders[resolving[k] + 1])]

\* the grid with exactly the referenced columns, in the order of the references
ReferencedGrid ==
    [r \in 1..Len(AfterAddition) |->
        [k \in 1..Len(ReferencedColumns) |->
            IF ReferencedColumns[k] < Len(AfterAddition[r])
            THEN AfterAddition[r][ReferencedColumns[k] + 1]
            ELSE EmptyStr]]

\* the row without the cells at the positions, counted from 0
WithoutPositions(row, positions) ==
    LET kept == SelectSeq([k \in 1..Len(row) |-> k - 1], LAMBDA i : i \notin positions)
    IN  [k \in 1..Len(kept) |-> row[kept[k] + 1]]

\* the positions in the header row of the first column of each selected name
FirstSelectedPositions(headerRow) ==
    {i \in 0..(Len(headerRow) - 1) :
        /\ InSeq(headerRow[i + 1], selectedHeaders)
        /\ \A j \in 0..(i - 1) : headerRow[j + 1] # headerRow[i + 1]}

\* the grid without the first column of each selected name
WithoutSelected(grid) ==
    [r \in 1..Len(grid) |-> WithoutPositions(grid[r], FirstSelectedPositions(grid[1]))]

Occurrences(name, headerRow) == Len(SelectSeq(headerRow, LAMBDA header : header = name))

DistinctNames(headerRow) ==
    \A i, j \in 1..Len(headerRow) : i # j => headerRow[i] # headerRow[j]

\* C27: when the column order is not empty and a position of it resolves,
\* the grid after the reorder stage has exactly the referenced columns in
\* the order of the references, so that, the names being distinct, a column
\* whose position the order does not list is absent from the final grid
\* also when it was not selected; when no position resolves, no column is
\* reordered or dropped by the reorder stage.
C27_OnlyReferencedColumnsKept ==
    (processedDataArray.called /\ ~processedDataArray.threw /\ ~columnOrder.isNull)
    => IF \E k \in 1..Len(columnOrder.list) : Resolves(columnOrder.list[k])
       THEN /\ BeforeRemoval = ReferencedGrid
            /\ processedDataArray.data = WithoutSelected(ReferencedGrid)
            /\ DistinctNames(AfterAddition[1])
               => \A p \in 0..(Len(CombinedHeaders) - 1) :
                     ~InSeq(p, columnOrder.list)
                     => ~InSeq(CombinedHeaders[p + 1], processedDataArray.data[1])
       ELSE /\ BeforeRemoval = AfterAddition
            /\ processedDataArray.data = WithoutSelected(AfterAddition)

\* the order lists the original headers B and A only: the added column D and
\* the column C are gone although nothing was selected
C27_Witness ==
    /\ processedDataArray.called
    /\ jsonData.list = <<(<<HA, HB, HC>>), <<Str(<<"1">>), Str(<<"2">>), Str(<<"3">>)>>>>
    /\ addedCustomColumns = <<HD>>
    /\ selectedHeaders = <<>>
    /\ columnOrder = List(<<1, 0>>)
    /\ processedDataArray.data = <<(<<HB, HA>>), <<Str(<<"2">>), Str(<<"1">>)>>>>

\* no position of the order resolves: all columns are kept
C27_NothingResolves ==
    /\ processedDataArray.called
    /\ jsonData.list = <<(<<HA, HB, HC>>), <<Str(<<"1">>), Str(<<"2">>), Str(<<"3">>)>>>>
    /\ addedCustomColumns = <<>>
    /\ selectedHeaders = <<>>
    /\ columnOrder = List(<<4, 3>>)
    /\ processedDataArray.data = jsonData.list

\* C28: when a name occurs more than once in the header row, the removal
\* stage removes the first column of that name only, and the reorder stage
\* takes for every reference to the name the first column of that name.
C28_FirstMatchWins ==
    (processedDataArray.called /\ ~processedDataArray.threw
        /\ ~DistinctNames(AfterAddition[1]))
    => /\ processedDataArray.data = WithoutSelected(BeforeRemoval)
       /\ \A k \in 1..Len(BeforeRemoval[1]) :
             Occurrences(BeforeRemoval[1][k], processedDataArray.data[1])
               = Occurrences(BeforeRemoval[1][k], BeforeRemoval[1])
                   - (IF InSeq(BeforeRemoval[1][k], selectedHeaders) THEN 1 ELSE 0)
       /\ (~columnOrder.isNull /\ \E k \in 1..Len(columnOrder.list) : Resolves(columnOrder.list[k]))
          => LET resolving == SelectSeq(columnOrder.list, Resolves)
             IN  \A r \in 1..Len(BeforeRemoval) : \A k \in 1..Len(resolving) :
                    BeforeRemoval[r][k]
                      = LET first == FirstColumnNamed(CombinedHeaders[resolving[k] + 1])
                        IN  IF first < Len(AfterAddition[r]) THEN AfterAddition[r][first + 1]
                            ELSE EmptyStr

\* the header row A, B, A with the order [2, 0] and A selected: both
\* references give the first column, of which the removal drops the first
C28_Witness ==
    /\ processedDataArray.called
    /\ jsonData.list = <<(<<HA, HB, HA>>), <<Str(<<"1">>), Str(<<"2">>), Str(<<"3">>)>>>>
    /\ addedCustomColumns = <<>>
    /\ selectedHeaders = <<HA>>
    /\ columnOrder = List(<<2, 0>>)
    /\ processedDataArray.data = <<(<<HA>>), <<Str(<<"1">>)>>>>

(***************************************************************************)
(* Workbooks for parseExcelFile: no row at all, or a first row (the header *)
(* row Date, Visit Date, or an empty row) and up to MaxSheetRows rows of a *)
(* serial date and a second cell that is a serial date, a text or blank.   *)
(***************************************************************************)
MaxSheetRows == 6

WorkbookRows == {<<Num(45300), Num(45000)>>, <<Num(45300), Str(<<"x">>)>>,
                 <<Num(45300), EmptyStr>>}

WorkbookSheets ==
    {<<>>} \cup
    {<<top>> \o rows : top \in {<<HDate, HVisitDate>>, <<>>},
                       rows \in SeqsOf(WorkbookRows, 0, MaxSheetRows)}

WorkbookName == <<"w", ".", "x", "l", "s", "x">>

InitWorkbook ==
    /\ jsonData = NullList
    /\ headers = <<>>
    /\ headerRowIndex = 0
    /\ selectedDateColumnIndex = -1
    /\ monthCounts = NullList
    /\ selectedMonths = <<>>
    /\ selectedHeaders = <<>>
    /\ addedCustomColumns = <<>>
    /\ columnOrder = NullList
    /\ legacyDateParser = FALSE
    /\ filteredData = NotCalled
    /\ processedDataArray = NotCalled
    /\ separatedData = NoSeparation
    /\ dateColumns = NoDetection
    /\ ParserIdle
    /\ SessionIdle
    /\ dataWithNewColumns = NoResult
    /\ reorderedData = NoResult
    /\ reorderedByNewOrder = NoResult
    /\ workbook \in WorkbookSheets
    /\ parsedWorkbook = NoResult

\* parseExcelFile on a file that is read as the workbook
CallParseExcelFile ==
    /\ ~parsedWorkbook.called
    /\ parsedWorkbook' = [called |-> TRUE,
                          data |-> parseExcelFile(File(WorkbookName, workbook),
                                                  legacyDateParser)]
    /\ UNCHANGED <<inputs, monthCounts, selectedMonths, filteredData, processedDataArray,
                   separatedData, dateColumns, parserVars, sessionVars>>
    /\ UNCHANGED <<dataWithNewColumns, reorderedData, reorderedByNewOrder, workbook>>

NextWorkbook == CallParseExcelFile

SpecWorkbook == InitWorkbook /\ [][NextWorkbook]_vars

\* parseExcelFile was called and resolved
WorkbookResolved == parsedWorkbook.called /\ parsedWorkbook.data.ok

\* C29 as stated: when parseExcelFile resolves, the returned monthCounts are
\* the month count of the column at the returned dateColumnIndex.
C29_CountsOfReturnedColumn ==
    WorkbookResolved
    => LET parsedData == parsedWorkbook.data.parsedData
       IN  parsedData.monthCounts
             = countEntriesByMonthWithColumn(
                   AdjustedData(parsedData.jsonData, parsedData.headerRowIndex),
                   parsedData.dateColumnIndex, legacyDateParser)

\* the first row of the workbook that findHeaderRow gives is not empty
HeaderRowDetected ==
    /\ Len(workbook) > 0
    /\ Len(workbook[findHeaderRow(workbook) + 1]) > 0

\* C30 as stated: parseExcelFile resolves for every workbook that has a row
\* and a detected header row that is not empty, whatever its number of rows,
\* and rejects exactly when the workbook is empty or no header row is
\* detected.
C30_RejectsOnlyUnrecoverable ==
    parsedWorkbook.called
    => (parsedWorkbook.data.ok <=> HeaderRowDetected)

\* the part of C30 that the code has: an empty workbook and a workbook
\* without a header row are rejected with their messages
C30_UnrecoverableRejected ==
    parsedWorkbook.called
    => /\ Len(workbook) = 0
          => parsedWorkbook.data = Rejected("The file appears to be empty")
       /\ (Len(workbook) > 0 /\ ~HeaderRowDetected)
          => parsedWorkbook.data = Rejected("Could not detect headers in the file")

\* C25 as stated: in every state of the session, every selected month is the
\* display name of a bucket of the current bucket list.
C25_SelectionWithinBuckets ==
    \A i \in 1..Len(selectedMonths) :
        \E k \in 1..Len(monthCounts.list) : monthCounts.list[k].month = selectedMonths[i]

\* the bucket list is the count of the selected date column and has no bucket
\* (the index is -1 or beyond the last column, or no row parses), and a month
\* is selected
StaleSelection ==
    /\ monthCounts = countEntriesByMonthWithColumn(Adjusted, selectedDateColumnIndex,
                                                   legacyDateParser)
    /\ Len(monthCounts.list) = 0
    /\ Len(selectedMonths) > 0

\* C24 as stated: when countEntriesByMonthWithColumn yields no bucket and a
\* month is selected, filterRowsByMonths and processExcelData called with
\* that result return (they do not raise).
C24_StaleSelectionDoesNotRaise ==
    StaleSelection
    => /\ filteredData.called => ~filteredData.threw
       /\ processedDataArray.called => ~processedDataArray.threw

\* the part of C24 that the code has: with the index -1 both return the
\* rows unfiltered
C24_NoDateColumnReturns ==
    (StaleSelection /\ selectedDateColumnIndex = -1)
    => /\ filteredData.called => filteredData = Called(Returned(Adjusted))
       /\ processedDataArray.called => ~processedDataArray.threw

(***************************************************************************)
(* Inputs of the column utilities: a grid whose rows have zero to two      *)
(* cells, among them the number 0 and the empty string, an index list that *)
(* is missing, empty or has up to two indices, and up to two new headers.  *)
(***************************************************************************)
UtilityCells == {Num(0), Str(<<"a">>), EmptyStr}

UtilityRows == SeqsOf(UtilityCells, 0, 2)

UtilityOrders == {NullList} \cup {List(p) : p \in SeqsOf(0..2, 0, 2)}

InitUtilities ==
    /\ jsonData \in {List(g) : g \in SeqsOf(UtilityRows, 0, MaxRows)}
    /\ headers = IF Len(jsonData.list) > 0 THEN jsonData.list[1] ELSE <<>>
    /\ headerRowIndex = 0
    /\ selectedDateColumnIndex = -1
    /\ monthCounts = NullList
    /\ selectedMonths = <<>>
    /\ selectedHeaders = <<>>
    /\ addedCustomColumns \in {<<>>, <<HZ>>, <<HZ, HD>>}
    /\ columnOrder \in UtilityOrders
    /\ legacyDateParser = FALSE
    /\ filteredData = NotCalled
    /\ processedDataArray = NotCalled
    /\ separatedData = NoSeparation
    /\ dateColumns = NoDetection
    /\ ParserIdle
    /\ SessionIdle
    /\ UtilityIdle

\* addNewColumns(grid, added columns)
CallAddNewColumns ==
    /\ dataWithNewColumns' = [called |-> TRUE,
                              data |-> addNewColumns(jsonData.list, addedCustomColumns)]
    /\ UNCHANGED <<inputs, monthCounts, selectedMonths, filteredData, processedDataArray,
                   separatedData, dateColumns, parserVars, sessionVars>>
    /\ UNCHANGED <<reorderedData, reorderedByNewOrder, workbook, parsedWorkbook>>

\* reorderColumns(grid, index list) of services/dataProcessing.js
CallReorderColumns ==
    /\ reorderedData' = [called |-> TRUE,
                         data |-> reorderColumns(jsonData.list, columnOrder.list)]
    /\ UNCHANGED <<inputs, monthCounts, selectedMonths, filteredData, processedDataArray,
                   separatedData, dateColumns, parserVars, sessionVars>>
    /\ UNCHANGED <<dataWithNewColumns, reorderedByNewOrder, workbook, parsedWorkbook>>

\* reorderColumns(grid, index list) of columnReordering.js
CallColumnReorderingReorderColumns ==
    /\ reorderedByNewOrder' = [called |-> TRUE,
                               data |-> columnReordering_reorderColumns(jsonData.list,
                                                                        columnOrder.list)]
    /\ UNCHANGED <<inputs, monthCounts, selectedMonths, filteredData, processedDataArray,
                   separatedData, dateColumns, parserVars, sessionVars>>
    /\ UNCHANGED <<dataWithNewColumns, reorderedData, workbook, parsedWorkbook>>

NextUtilities ==
    \/ CallAddNewColumns
    \/ CallReorderColumns
    \/ CallColumnReorderingReorderColumns

SpecUtilities == InitUtilities /\ [][NextUtilities]_vars

\* the output is the grid with the cells of every row copied by position
CopiedByPosition(output, data, p) ==
    IF Len(p) = 0 THEN output = data
    ELSE /\ Len(output) = Len(data)
         /\ \A r \in 1..Len(data) :
               /\ Len(output[r]) = Len(p)
               /\ \A k \in 1..Len(p) :
                     output[r][k] = IF p[k] < Len(data[r]) THEN data[r][p[k] + 1]
                                    ELSE EmptyStr

\* C22 as stated: both reorderColumns return, for every row and index list p,
\* a row of |p| cells whose k-th cell is the input cell at p[k], unchanged
\* also when it is 0 or empty, or the empty string when p[k] is beyond the
\* row; a missing or empty p returns the grid.
C22_ReorderCopiesByPosition ==
    /\ reorderedData.called
       => CopiedByPosition(reorderedData.data, jsonData.list, columnOrder.list)
    /\ reorderedByNewOrder.called
       => CopiedByPosition(reorderedByNewOrder.data, jsonData.list, columnOrder.list)

\* the part of C22 that the code has: reorderColumns of services/dataProcessing.js
C22_ServicesReorderCopies ==
    reorderedData.called
    => CopiedByPosition(reorderedData.data, jsonData.list, columnOrder.list)

\* C23 as stated: addNewColumns appends the new names to the header row, and
\* in every data row the cell at the position of an added header is the empty
\* string and the cells at the positions of the original headers are
\* unchanged, whatever the length of the row.
C23_AddedCellsUnderAddedHeaders ==
    (dataWithNewColumns.called /\ Len(jsonData.list) > 0)
    => LET output == dataWithNewColumns.data
           data == jsonData.list
       IN  /\ Len(output) = Len(data)
           /\ output[1] = data[1] \o addedCustomColumns
           /\ \A r \in 2..Len(data) :
                 /\ \A k \in 1..Len(addedCustomColumns) :
                       At(output[r], Len(data[1]) + k - 1) = EmptyStr
                 /\ \A k \in 1..Len(data[1]) :
                       At(output[r], k - 1) = At(data[r], k - 1)

====
